---- MODULE Spec2Model ----
(***************************************************************************)
(* Terminology server: FHIR $expand / $validate-code / $lookup over an     *)
(* Elasticsearch store (indices concepts, descriptions, relationships,     *)
(* language_refsets).  The store is read-only; a behaviour processes the   *)
(* requests of one operation, chosen in Init (op).  Every suspension point *)
(* of a handler is a store call; a store call either answers or raises.    *)
(***************************************************************************)
EXTENDS Integers, Sequences, FiniteSets, TLC

VARIABLES
    op,               \* the operation this behaviour runs
    pc,               \* position inside the running handler
    concepts,         \* index "concepts":       set of [id, active]
    relationships,    \* index "relationships":  set of [source_id, destination_id, type_id, active]
    descriptions,     \* index "descriptions":   set of [id, concept_id, type_id, term, language_code, active]
    language_refsets, \* index "language_refsets": set of [referenced_component_id, refset_id, acceptability_id, active]
    request,          \* the inputs of the running operation
    all_descendants,  \* find_descendants: accumulated result
    current_level,    \* find_descendants: frontier
    depth,            \* find_descendants: loop counter
    all_concept_ids,  \* expand_view: concept ids collected from the include clauses
    exclude_concept_ids, \* expand_view: concept ids collected from the exclude clauses
    cursor,           \* expand_view: index of the clause being evaluated by the running loop
    raised,           \* TRUE once a store call of the running operation raised
    response,         \* what the operation returned to its caller
    previous,         \* what the previous run of the same request returned (None: no previous run)
    workers           \* concurrent requests: worker -> the local variables of its handler

storeVars == <<concepts, relationships, descriptions, language_refsets>>
fdVars    == <<all_descendants, current_level, depth>>
evVars    == <<all_concept_ids, exclude_concept_ids, cursor>>
vars      == <<op, pc, concepts, relationships, descriptions, language_refsets,
               request, all_descendants, current_level, depth,
               all_concept_ids, exclude_concept_ids, cursor, raised, response, previous,
               workers>>

None == "None"

\* "no term": Python's None and its empty str, both falsy in "preferred_term or concept_id"
NoTerm == <<>>

(***************************************************************************)
(* Well-known identifiers of the source.                                   *)
(***************************************************************************)
IS_A          == "116680003"
OTHER_REL     == "363698007"            \* any relationship type that is not IS-A
SYNONYM       == "900000000000013009"
FSN           == "900000000000003001"
PREFERRED     == "900000000000548007"
ACCEPTABLE    == "900000000000549004"
REFSET_US     == "900000000000509007"
REFSET_GB     == "900000000000508004"
SNOMED        == "http://snomed.info/sct"
LOINC         == "http://loinc.org"

(***************************************************************************)
(* Text.  A Python str is a sequence of characters; the characters the     *)
(* model uses, with their code points (Python compares str by code point). *)
(***************************************************************************)
CodePoint ==
    ("TAB" :> 9) @@ (" " :> 32) @@ ("(" :> 40) @@ (")" :> 41) @@
    ("0" :> 48) @@ ("1" :> 49) @@ ("2" :> 50) @@ ("3" :> 51) @@ ("4" :> 52) @@
    ("5" :> 53) @@ ("6" :> 54) @@ ("7" :> 55) @@ ("8" :> 56) @@ ("9" :> 57) @@
    ("A" :> 65) @@ ("B" :> 66) @@ ("C" :> 67) @@ ("E" :> 69) @@
    ("a" :> 97) @@ ("b" :> 98) @@ ("c" :> 99) @@ ("e" :> 101) @@ ("x" :> 120) @@
    ("E_ACUTE" :> 201) @@ ("e_acute" :> 233) @@ ("COMBINING_ACUTE" :> 769)

\* str.lower(), one character
lower_char(c) ==
    CASE c = "A" -> "a" [] c = "B" -> "b" [] c = "C" -> "c" [] c = "E" -> "e"
      [] c = "E_ACUTE" -> "e_acute"
      [] OTHER -> c

\* str.lower()
lower(s) == [i \in 1 .. Len(s) |-> lower_char(s[i])]

RECURSIVE str_lt(_, _)
\* s < t for two str (lexicographic by code point)
str_lt(s, t) ==
    IF s = <<>> THEN t # <<>>
    ELSE IF t = <<>> THEN FALSE
    ELSE IF CodePoint[Head(s)] # CodePoint[Head(t)]
         THEN CodePoint[Head(s)] < CodePoint[Head(t)]
         ELSE str_lt(Tail(s), Tail(t))

\* the decimal digits of a concept code: codes are str in the requests and in the store
Digit(n) == <<"0", "1", "2", "3", "4", "5", "6", "7", "8", "9">>[n + 1]

RECURSIVE code_str(_)
code_str(n) == IF n < 10 THEN <<Digit(n)>> ELSE Append(code_str(n \div 10), Digit(n % 10))

Min(a, b) == IF a < b THEN a ELSE b
Max(a, b) == IF a > b THEN a ELSE b

Range(seq) == { seq[i] : i \in 1 .. Len(seq) }

RECURSIVE sorted_codes(_)
\* sorted(list(concept_ids)): ascending by the code str
sorted_codes(S) ==
    IF S = {} THEN <<>>
    ELSE LET m == CHOOSE x \in S : \A y \in S \ {x} : str_lt(code_str(x), code_str(y))
         IN  <<m>> \o sorted_codes(S \ {m})

\* lst[a:b] of Python, for any integers a and b
py_slice(lst, a, b) ==
    LET n  == Len(lst)
        lo == IF a < 0 THEN Max(a + n, 0) ELSE Min(a, n)
        hi == IF b < 0 THEN Max(b + n, 0) ELSE Min(b, n)
    IN  IF lo >= hi THEN <<>> ELSE SubSeq(lst, lo + 1, hi)

(***************************************************************************)
(* Text search.  The descriptions index has no explicit mapping: "term" is *)
(* an analysed text field (words, lower-cased, diacritics kept) with a     *)
(* "term.keyword" sub-field holding the raw str.                           *)
(***************************************************************************)
Whitespace == {"TAB", " "}
Separators == {"TAB", " ", "(", ")"}

\* unicodedata.normalize('NFD', c) without the characters of category Mn
strip_diacritics_char(c) ==
    CASE c = "e_acute" -> <<"e">>
      [] c = "E_ACUTE" -> <<"E">>
      [] c = "COMBINING_ACUTE" -> <<>>
      [] OTHER -> <<c>>

RECURSIVE strip_diacritics(_)
strip_diacritics(s) ==
    IF s = <<>> THEN <<>>
    ELSE strip_diacritics_char(Head(s)) \o strip_diacritics(Tail(s))

\* the non-empty maximal runs of s without a character of seps (cur: the run being read)
split(s, cur, seps) ==
    LET t        == cur \o s
        starts   == { i \in 1 .. Len(t) : t[i] \notin seps /\ (i = 1 \/ t[i - 1] \in seps) }
        ends     == { i \in 1 .. Len(t) : t[i] \notin seps /\ (i = Len(t) \/ t[i + 1] \in seps) }
        start(m) == CHOOSE i \in starts : Cardinality({ j \in starts : j < i }) = m - 1
        end(m)   == CHOOSE i \in ends : Cardinality({ j \in ends : j < i }) = m - 1
    IN  [m \in 1 .. Cardinality(starts) |-> SubSeq(t, start(m), end(m))]

RECURSIVE join(_)
\* ' '.join(words)
join(words) ==
    IF words = <<>> THEN <<>>
    ELSE IF Len(words) = 1 THEN words[1]
    ELSE words[1] \o <<" ">> \o join(Tail(words))

\* normalize_search_text: lower(), NFD without marks, re.sub(r'\s+', ' ', text.strip())
normalize_search_text(text) ==
    join(split(strip_diacritics(lower(text)), <<>>, Whitespace))

\* the standard analyzer: the words of the text, lower-cased
analyze(text) == split(lower(text), <<>>, Separators)

\* s.startswith(p)
startswith(s, p) == Len(p) <= Len(s) /\ SubSeq(s, 1, Len(p)) = p

\* p in s
contains_str(s, p) ==
    \E i \in 1 .. (Len(s) - Len(p) + 1) : SubSeq(s, i, i + Len(p) - 1) = p

\* {"match_phrase": {"term": {"query": q}}}: the words of q, consecutive and in order
match_phrase(term, q) ==
    LET tq == analyze(q)
        tt == analyze(term)
    IN  /\ tq # <<>>
        /\ \E i \in 1 .. (Len(tt) - Len(tq) + 1) : SubSeq(tt, i, i + Len(tq) - 1) = tq

\* {"prefix": {"term": {"value": v}}}: one indexed word starts with v (v is not analysed)
prefix_match(term, v) ==
    \E i \in 1 .. Len(analyze(term)) : startswith(analyze(term)[i], v)

\* the boosts of the two "should" clauses
PHRASE_BOOST == 10
PREFIX_BOOST == 5

\* _score of a hit: the boosted clauses that match, added (relevance factor taken as 1)
es_score(term, normalized_filter) ==
    (IF match_phrase(term, normalized_filter) THEN PHRASE_BOOST ELSE 0)
    + (IF prefix_match(term, normalized_filter) THEN PREFIX_BOOST ELSE 0)

\* calculate_additional_score
LONG_TERM == 100
calculate_additional_score(term, filter_text, type_id) ==
    LET term_lower   == lower(term)
        filter_lower == lower(filter_text)
        match_bonus  == IF term_lower = filter_lower THEN 50
                        ELSE IF startswith(term_lower, filter_lower) THEN 30
                        ELSE IF \/ contains_str(term_lower, <<" ">> \o filter_lower)
                                \/ startswith(term_lower, filter_lower) THEN 20
                        ELSE 0
        type_bonus   == IF type_id = SYNONYM THEN 10
                        ELSE IF type_id = FSN THEN 5
                        ELSE 0
        length_malus == IF Len(term) > LONG_TERM THEN 5 ELSE 0
    IN  match_bonus + type_bonus - length_malus

(***************************************************************************)
(* Bounds of the model.                                                    *)
(***************************************************************************)
ChainMax == 12      \* longest IS-A chain of the graphs explored (root included)

\* find_descendants: "max_depth = 10  # Prevent infinite loops"
max_depth == 10

Codes == 1 .. (ChainMax + 1)

(***************************************************************************)
(* Graphs.  Chain(n): n -> n-1 -> ... -> 1 (source -> destination), plus   *)
(* any subset of a few extra edges: a self-loop on 1, a cycle through 1,   *)
(* a second path to 1, an inactive IS-A edge and an edge of another type.  *)
(***************************************************************************)
Rel(s, d, t, a) == [source_id |-> s, destination_id |-> d, type_id |-> t, active |-> a]

Chain(n) == { Rel(i + 1, i, IS_A, TRUE) : i \in 1 .. (n - 1) }

ExtraRels ==
    { Rel(1, 1, IS_A, TRUE),                  \* self-loop on the root
      Rel(1, 3, IS_A, TRUE),                  \* 3 -> 2 -> 1 -> 3: cycle through the root
      Rel(3, 1, IS_A, TRUE),                  \* 3 is a child of 2 and of 1
      Rel(ChainMax + 1, 1, IS_A, FALSE),      \* retired IS-A edge
      Rel(ChainMax + 1, 2, OTHER_REL, TRUE) } \* attribute relationship

Graphs == { Chain(n) \cup x : n \in 1 .. ChainMax, x \in SUBSET ExtraRels }

(***************************************************************************)
(* get_children_composite: the distinct source_id of the active IS-A       *)
(* relationships whose destination_id is one of parent_concept_ids.  The   *)
(* composite aggregation is paged with after_key until no bucket is left,  *)
(* so the union of the pages is the whole set.                             *)
(***************************************************************************)
get_children_composite(parent_concept_ids) ==
    { r.source_id : r \in { x \in relationships :
                              /\ x.destination_id \in parent_concept_ids
                              /\ x.type_id = IS_A
                              /\ x.active } }

\* find_descendants: "new_descendants = next_level - all_descendants - {concept_id}"
new_descendants_keep_root(next_level, all_desc, concept_id) ==
    next_level \ all_desc

new_descendants_revisit(next_level, all_desc, concept_id) ==
    next_level \ {concept_id}

new_descendants(next_level, all_desc, concept_id) ==
    (next_level \ all_desc) \ {concept_id}

\* find_descendants: "while current_level and depth < max_depth"
fd_continue(level, d) == level # {} /\ d < max_depth

(***************************************************************************)
(* find_descendants, one iteration of the while loop: the store answers.   *)
(***************************************************************************)
find_descendants_level ==
    /\ op = "find_descendants" /\ pc = "loop"
    /\ fd_continue(current_level, depth)
    /\ LET next_level == get_children_composite(current_level)
           new        == new_descendants(next_level, all_descendants, request.concept_id)
       IN  IF new = {}
           THEN \* break
                /\ pc' = "done"
                /\ response' = [kind |-> "set", value |-> all_descendants]
                /\ UNCHANGED fdVars
           ELSE /\ all_descendants' = all_descendants \cup new
                /\ current_level' = new
                /\ depth' = depth + 1
                /\ IF fd_continue(new, depth + 1)
                   THEN pc' = "loop" /\ UNCHANGED response
                   ELSE /\ pc' = "done"
                        /\ response' = [kind |-> "set", value |-> all_descendants \cup new]
    /\ UNCHANGED <<op, workers, previous, storeVars, request, evVars, raised>>

(***************************************************************************)
(* find_descendants, the relationship query raises: "except Exception ...  *)
(* return all_descendants".                                                *)
(***************************************************************************)
find_descendants_error ==
    /\ op = "find_descendants" /\ pc = "loop"
    /\ fd_continue(current_level, depth)
    /\ raised' = TRUE
    /\ pc' = "done"
    /\ response' = [kind |-> "set", value |-> all_descendants]
    /\ UNCHANGED <<op, workers, previous, storeVars, request, fdVars, evVars>>

(***************************************************************************)
(* Initial states.                                                         *)
(***************************************************************************)
InitFindDescendants ==
    /\ op = "find_descendants"
    /\ relationships \in Graphs
    /\ concepts = { [id |-> c, active |-> TRUE] : c \in Codes }
    /\ descriptions = {}
    /\ language_refsets = {}
    /\ request \in { [concept_id |-> c] : c \in 1 .. 3 }
    /\ all_descendants = {}
    /\ current_level = {request.concept_id}
    /\ depth = 0
    /\ all_concept_ids = {}
    /\ exclude_concept_ids = {}
    /\ cursor = None
    /\ raised = FALSE
    /\ pc = "loop"
    /\ response = [kind |-> "none"]       \* nothing returned yet
    /\ previous = None
    /\ workers = <<>>

NextFindDescendants ==
    \/ find_descendants_level
    \/ find_descendants_error

SpecFindDescendants == InitFindDescendants /\ [][NextFindDescendants]_vars

\* find_descendants is a sequential loop of the thread that serves the request:
\* while an iteration is possible, one is taken
SpecFindDescendantsFair ==
    InitFindDescendants /\ [][NextFindDescendants]_vars /\ WF_vars(NextFindDescendants)

(***************************************************************************)
(* Store documents of the descriptions and language_refsets indices.       *)
(***************************************************************************)
Desc(id, c, t, term, lang, a) ==
    [id |-> id, concept_id |-> c, type_id |-> t, term |-> term,
     language_code |-> lang, active |-> a]

Member(d, refset, acc, a) ==
    [referenced_component_id |-> d, refset_id |-> refset, acceptability_id |-> acc, active |-> a]

(***************************************************************************)
(* es.search with "size": n.  The store returns every matching document    *)
(* when there are at most n, and otherwise n of them; which n is decided   *)
(* by the store (the queries below state no sort).                         *)
(***************************************************************************)
search_hits(matching, size) ==
    IF Cardinality(matching) <= size THEN {matching}
    ELSE { h \in SUBSET matching : Cardinality(h) = size }

\* get_preferred_terms_single_query: refset_map.get(display_language, US)
refset_map(display_language) ==
    CASE display_language = "en"    -> REFSET_US
      [] display_language = "en-us" -> REFSET_US
      [] display_language = "en-gb" -> REFSET_GB
      [] OTHER                      -> REFSET_US

\* get_preferred_terms_single_query, desc_query: the active FSN and Synonym
\* descriptions of the concepts in the display language
pt_desc_matching(concept_ids, display_language) ==
    { d \in descriptions : /\ d.concept_id \in Range(concept_ids)
                           /\ d.active
                           /\ d.language_code = display_language
                           /\ d.type_id \in {SYNONYM, FSN} }

\* get_preferred_terms_single_query, preferred_query: the active Preferred
\* members of the refset that reference one of the description ids
pt_member_matching(desc_hits, refset_id) ==
    { m \in language_refsets : /\ m.referenced_component_id \in { d.id : d \in desc_hits }
                               /\ m.refset_id = refset_id
                               /\ m.active
                               /\ m.acceptability_id = PREFERRED }

(***************************************************************************)
(* get_preferred_terms_single_query, the two loops that build the mapping: *)
(* the first Preferred Synonym hit of a concept, else its first Preferred  *)
(* FSN hit.  "First" is the order of the hits, which the store decides:    *)
(* the terms the concept can end up with.                                  *)
(***************************************************************************)
preferred_term_choices(concept_id, desc_hits, pref_hits) ==
    LET pd(t) == { d \in desc_hits :
                     /\ d.concept_id = concept_id /\ d.type_id = t
                     /\ \E m \in pref_hits : m.referenced_component_id = d.id }
    IN  IF pd(SYNONYM) # {} THEN { d.term : d \in pd(SYNONYM) }
        ELSE IF pd(FSN) # {} THEN { d.term : d \in pd(FSN) }
        ELSE {NoTerm}

RECURSIVE preferred_terms_maps(_, _, _)
\* every mapping concept -> term (NoTerm: no entry) the loops can build
preferred_terms_maps(ids, desc_hits, pref_hits) ==
    IF ids = {} THEN { <<>> }
    ELSE LET c == CHOOSE x \in ids : TRUE
         IN  { (c :> t) @@ g : t \in preferred_term_choices(c, desc_hits, pref_hits),
                               g \in preferred_terms_maps(ids \ {c}, desc_hits, pref_hits) }

(***************************************************************************)
(* get_preferred_terms_single_query: every result [terms, raised] the call *)
(* can have.  A store call that raises is caught: "return {}".             *)
(***************************************************************************)
get_preferred_terms_single_query(concept_ids, display_language) ==
    LET ids   == Range(concept_ids)
        empty == [c \in ids |-> NoTerm]
    IN  IF concept_ids = <<>> THEN { [terms |-> empty, raised |-> FALSE] }
        ELSE { [terms |-> empty, raised |-> TRUE] } \cup
             { [terms |-> f, raised |-> FALSE] :
                 f \in UNION { UNION { preferred_terms_maps(ids, desc_hits, pref_hits) :
                                 pref_hits \in search_hits(
                                     pt_member_matching(desc_hits, refset_map(display_language)),
                                     Cardinality(desc_hits)) } :
                               desc_hits \in search_hits(
                                     pt_desc_matching(concept_ids, display_language),
                                     Len(concept_ids) * 10) } }

\* get_concepts_details_single_query, query: the active descriptions of the
\* concepts in the display language
details_matching(concept_ids, display_language) ==
    { d \in descriptions : /\ d.concept_id \in Range(concept_ids)
                           /\ d.active
                           /\ d.language_code = display_language }

\* build_concept_entry_from_descriptions, the sort key of the fallback:
\* (0 if Synonym else 1, term)
entry_key_lt(d, e) ==
    LET kd == IF d.type_id = SYNONYM THEN 0 ELSE 1
        ke == IF e.type_id = SYNONYM THEN 0 ELSE 1
    IN  kd < ke \/ (kd = ke /\ str_lt(d.term, e.term))

(***************************************************************************)
(* build_concept_entry_from_descriptions (designations left out: no        *)
(* property reads them).                                                   *)
(***************************************************************************)
build_concept_entry_from_descriptions(concept_id, descs, preferred_term) ==
    LET display_term ==
            IF preferred_term # NoTerm THEN preferred_term
            ELSE IF descs = {} THEN NoTerm
            ELSE (CHOOSE d \in descs : \A e \in descs : ~entry_key_lt(e, d)).term
    IN  [system |-> SNOMED, code |-> concept_id,
         display |-> IF display_term # NoTerm THEN display_term ELSE code_str(concept_id)]

(***************************************************************************)
(* get_concepts_details_for_expansion with get_concepts_details_single_    *)
(* query: every result [contains, raised] the call can have.  A page holds *)
(* at most count <= 100 < MAX_TERMS_PER_QUERY concepts, so the single      *)
(* query branch is the one taken.  When the description search raises,     *)
(* the handler of get_concepts_details_for_expansion returns [].           *)
(***************************************************************************)
get_concepts_details_for_expansion(concept_ids, display_language) ==
    IF concept_ids = <<>> THEN { [contains |-> <<>>, raised |-> FALSE] }
    ELSE { [contains |-> <<>>, raised |-> TRUE] } \cup
         { [contains |-> [i \in 1 .. Len(concept_ids) |->
                            build_concept_entry_from_descriptions(
                                concept_ids[i],
                                { d \in hits : d.concept_id = concept_ids[i] },
                                pt.terms[concept_ids[i]])],
            raised |-> pt.raised] :
             hits \in search_hits(details_matching(concept_ids, display_language),
                                  Len(concept_ids) * 20),
             pt \in get_preferred_terms_single_query(concept_ids, display_language) }

(***************************************************************************)
(* get_expansion: every result [contains, total, raised] the call can have.*)
(***************************************************************************)
get_expansion(concept_ids, display_language, count, offset) ==
    LET total_count           == Cardinality(concept_ids)
        concept_ids_list      == sorted_codes(concept_ids)
        paginated_concept_ids == py_slice(concept_ids_list, offset, offset + count)
    IN  { [contains |-> r.contains, total |-> total_count, raised |-> r.raised] :
            r \in get_concepts_details_for_expansion(paginated_concept_ids, display_language) }

(***************************************************************************)
(* Filtered expansion.  The two limits of the source are scaled down so    *)
(* that candidate sets and hit lists beyond them are explored:             *)
(* MAX_TERMS_PER_QUERY is 60000 and the "size" of the filter query 10000   *)
(* in the source.                                                          *)
(***************************************************************************)
MAX_TERMS_PER_QUERY == 2
FILTER_QUERY_SIZE   == 2

\* chunk_list(lst, chunk_size), as a list of chunks
chunk_list(lst, chunk_size) ==
    [k \in 1 .. ((Len(lst) + chunk_size - 1) \div chunk_size) |->
        py_slice(lst, (k - 1) * chunk_size, k * chunk_size)]

RECURSIVE list_orders(_)
\* list(concept_ids) of a set: its elements in an order the caller does not control
list_orders(S) ==
    IF S = {} THEN { <<>> }
    ELSE UNION { { <<x>> \o t : t \in list_orders(S \ {x}) } : x \in S }

\* the documents the filter query matches ("must" clauses, one "should" clause at least)
filter_matching(concept_ids, normalized_filter, display_language) ==
    { d \in descriptions :
        /\ d.concept_id \in concept_ids
        /\ d.active
        /\ d.language_code = display_language
        /\ \/ match_phrase(d.term, normalized_filter)
           \/ prefix_match(d.term, normalized_filter) }

\* "sort": _score desc, then term.keyword asc
hit_before(d, e, normalized_filter) ==
    LET sd == es_score(d.term, normalized_filter)
        se == es_score(e.term, normalized_filter)
    IN  sd > se \/ (sd = se /\ str_lt(d.term, e.term))

RECURSIVE sorted_hits(_, _)
\* the orders in which the store can list the matching documents: sorted,
\* documents with equal sort values in any order
sorted_hits(matching, normalized_filter) ==
    IF matching = {} THEN { <<>> }
    ELSE UNION { { <<m>> \o t : t \in sorted_hits(matching \ {m}, normalized_filter) } :
                 m \in { x \in matching :
                           \A y \in matching : ~hit_before(y, x, normalized_filter) } }

\* resp["hits"]["hits"] of the filter query: the first "size" documents
filter_hits(concept_ids, normalized_filter, display_language) ==
    { py_slice(h, 0, FILTER_QUERY_SIZE) :
        h \in sorted_hits(filter_matching(concept_ids, normalized_filter, display_language),
                          normalized_filter) }

\* final_score = hit["_score"] + additional_score
final_score(d, normalized_filter) ==
    es_score(d.term, normalized_filter)
    + calculate_additional_score(d.term, normalized_filter, d.type_id)

RECURSIVE first_seen(_, _)
\* the keys of concept_descriptions in insertion order: concepts by first hit
first_seen(hits, seen) ==
    IF hits = <<>> THEN <<>>
    ELSE LET c == Head(hits).concept_id
         IN  IF c \in seen THEN first_seen(Tail(hits), seen)
             ELSE <<c>> \o first_seen(Tail(hits), seen \cup {c})

\* max(descriptions, key=score) of one concept: the first hit of maximal final score
best_desc(concept_id, hits, normalized_filter) ==
    LET ds == SelectSeq(hits, LAMBDA h : h.concept_id = concept_id)
        i  == CHOOSE k \in 1 .. Len(ds) :
                /\ \A j \in 1 .. Len(ds) :
                      final_score(ds[j], normalized_filter) <= final_score(ds[k], normalized_filter)
                /\ \A j \in 1 .. (k - 1) :
                      final_score(ds[j], normalized_filter) < final_score(ds[k], normalized_filter)
    IN  [concept_id |-> concept_id,
         score      |-> final_score(ds[i], normalized_filter),
         best_term  |-> ds[i].term]

\* key=lambda x: (-x["score"], x["best_term"].lower())
concept_key_lt(a, b) ==
    a.score > b.score \/ (a.score = b.score /\ str_lt(lower(a.best_term), lower(b.best_term)))

RECURSIVE sorted_stable(_)
\* sorted(): ascending by key, elements of equal key in their order of arrival
sorted_stable(lst) ==
    IF lst = <<>> THEN <<>>
    ELSE LET i == CHOOSE k \in 1 .. Len(lst) :
                    /\ \A j \in 1 .. Len(lst) : ~concept_key_lt(lst[j], lst[k])
                    /\ \A j \in 1 .. (k - 1) : concept_key_lt(lst[k], lst[j])
         IN  <<lst[i]>> \o sorted_stable(SubSeq(lst, 1, i - 1) \o SubSeq(lst, i + 1, Len(lst)))

\* concept_scores.values() sorted: the ranking of the concepts that have a hit
sorted_concepts(hits, normalized_filter) ==
    LET keys == first_seen(hits, {})
    IN  sorted_stable([k \in 1 .. Len(keys) |-> best_desc(keys[k], hits, normalized_filter)])

(***************************************************************************)
(* process_filtered_results, and the same statements at the end of         *)
(* get_filtered_expansion_batched: rank, count, slice, fetch the details.  *)
(***************************************************************************)
process_filtered_results(hits, normalized_filter, display_language, count, offset) ==
    LET ranked              == sorted_concepts(hits, normalized_filter)
        total_count         == Len(ranked)
        paginated_concepts  == py_slice(ranked, offset, offset + count)
        concept_ids_for_details ==
            [k \in 1 .. Len(paginated_concepts) |-> paginated_concepts[k].concept_id]
    IN  { [contains |-> r.contains, total |-> total_count, raised |-> r.raised] :
            r \in get_concepts_details_for_expansion(concept_ids_for_details, display_language) }

\* get_filtered_expansion_single_query; a search that raises reaches the handler of
\* get_filtered_expansion: "return [], 0"
get_filtered_expansion_single_query(concept_ids_list, normalized_filter, display_language, count, offset) ==
    { [contains |-> <<>>, total |-> 0, raised |-> TRUE] } \cup
    UNION { process_filtered_results(h, normalized_filter, display_language, count, offset) :
            h \in filter_hits(Range(concept_ids_list), normalized_filter, display_language) }

RECURSIVE batch_hits(_, _, _)
\* the loop over the batches: the hits gathered, a batch whose search raises is skipped
batch_hits(chunks, normalized_filter, display_language) ==
    IF chunks = <<>> THEN { [hits |-> <<>>, raised |-> FALSE] }
    ELSE LET rest == batch_hits(Tail(chunks), normalized_filter, display_language)
         IN  { [hits |-> r.hits, raised |-> TRUE] : r \in rest } \cup
             { [hits |-> h \o r.hits, raised |-> r.raised] :
                 h \in filter_hits(Range(Head(chunks)), normalized_filter, display_language),
                 r \in rest }

get_filtered_expansion_batched(concept_ids_list, normalized_filter, display_language, count, offset) ==
    UNION { { [contains |-> r.contains, total |-> r.total, raised |-> r.raised \/ b.raised] :
                r \in process_filtered_results(b.hits, normalized_filter,
                                               display_language, count, offset) } :
            b \in batch_hits(chunk_list(concept_ids_list, MAX_TERMS_PER_QUERY),
                             normalized_filter, display_language) }

\* get_filtered_expansion: every result [contains, total, raised] the call can have
get_filtered_expansion(concept_ids, filter_text, display_language, count, offset) ==
    LET normalized_filter == normalize_search_text(filter_text)
    IN  UNION { IF Len(concept_ids_list) <= MAX_TERMS_PER_QUERY
                THEN get_filtered_expansion_single_query(
                         concept_ids_list, normalized_filter, display_language, count, offset)
                ELSE get_filtered_expansion_batched(
                         concept_ids_list, normalized_filter, display_language, count, offset) :
                concept_ids_list \in list_orders(concept_ids) }

(***************************************************************************)
(* Description fixtures: what a concept owns in the descriptions index and *)
(* in the language refsets.  Description ids are 100 * concept + k.        *)
(***************************************************************************)
ManySynonyms == 9    \* Acceptable synonyms of the "many" profile, besides its FSN and its Preferred synonym

Profiles == { "none", "standard", "fsn_only", "no_preferred", "retired_pt",
              "two_pt", "spanish", "many" }

ProfileDescriptions(c, p) ==
    LET id(k) == 100 * c + k
    IN  CASE p = "none" -> {}
          [] p = "standard" ->
                { Desc(id(1), c, FSN, <<"a", "b", " ", "(", "x", ")">>, "en", TRUE),
                  Desc(id(2), c, SYNONYM, <<"a", "b">>, "en", TRUE),
                  Desc(id(3), c, SYNONYM, <<"A", "b", " ", "c">>, "en", TRUE) }
          [] p = "fsn_only" ->
                { Desc(id(1), c, FSN, <<"a", "b", " ", "(", "x", ")">>, "en", TRUE) }
          [] p = "no_preferred" ->
                { Desc(id(1), c, FSN, <<"a", " ", "(", "x", ")">>, "en", TRUE),
                  Desc(id(2), c, SYNONYM, <<"b">>, "en", TRUE),
                  Desc(id(3), c, SYNONYM, <<"a">>, "en", TRUE) }
          [] p = "retired_pt" ->
                { Desc(id(1), c, FSN, <<"a", "b", " ", "(", "x", ")">>, "en", TRUE),
                  Desc(id(2), c, SYNONYM, <<"a", "b">>, "en", FALSE),
                  Desc(id(3), c, SYNONYM, <<"c">>, "en", TRUE) }
          [] p = "two_pt" ->
                { Desc(id(1), c, FSN, <<"a", "b", " ", "(", "x", ")">>, "en", TRUE),
                  Desc(id(2), c, SYNONYM, <<"b">>, "en", TRUE),
                  Desc(id(3), c, SYNONYM, <<"a">>, "en", TRUE) }
          [] p = "spanish" ->
                { Desc(id(1), c, FSN, <<"a", "b", " ", "(", "x", ")">>, "en", TRUE),
                  Desc(id(2), c, SYNONYM, <<"a", "b">>, "en", TRUE),
                  Desc(id(3), c, SYNONYM, <<"e_acute", "a">>, "es", TRUE) }
          [] p = "many" ->
                { Desc(id(1), c, FSN, <<"a", "b", " ", "(", "x", ")">>, "en", TRUE),
                  Desc(id(2), c, SYNONYM, <<"a", "b">>, "en", TRUE) } \cup
                { Desc(id(2 + k), c, SYNONYM, <<"a">> \o code_str(k), "en", TRUE) :
                    k \in 1 .. ManySynonyms }

ProfileMembers(c, p) ==
    LET id(k) == 100 * c + k
    IN  CASE p = "none" -> {}
          [] p = "standard" ->
                { Member(id(1), REFSET_US, PREFERRED, TRUE),
                  Member(id(1), REFSET_GB, PREFERRED, TRUE),
                  Member(id(2), REFSET_US, PREFERRED, TRUE),
                  Member(id(2), REFSET_GB, ACCEPTABLE, TRUE),
                  Member(id(3), REFSET_US, ACCEPTABLE, TRUE),
                  Member(id(3), REFSET_GB, PREFERRED, TRUE) }
          [] p = "fsn_only" ->
                { Member(id(1), REFSET_US, PREFERRED, TRUE) }
          [] p = "no_preferred" ->
                { Member(id(2), REFSET_US, PREFERRED, FALSE),
                  Member(id(2), REFSET_US, ACCEPTABLE, TRUE),
                  Member(id(3), REFSET_US, ACCEPTABLE, TRUE),
                  Member(id(3), REFSET_GB, PREFERRED, TRUE) }
          [] p = "retired_pt" ->
                { Member(id(1), REFSET_US, PREFERRED, TRUE),
                  Member(id(2), REFSET_US, PREFERRED, TRUE),
                  Member(id(3), REFSET_US, ACCEPTABLE, TRUE) }
          [] p = "two_pt" ->
                { Member(id(1), REFSET_US, PREFERRED, TRUE),
                  Member(id(2), REFSET_US, PREFERRED, TRUE),
                  Member(id(3), REFSET_US, PREFERRED, TRUE) }
          [] p = "spanish" ->
                { Member(id(1), REFSET_US, PREFERRED, TRUE),
                  Member(id(2), REFSET_US, PREFERRED, TRUE) }
          [] p = "many" ->
                { Member(id(1), REFSET_US, PREFERRED, TRUE),
                  Member(id(2), REFSET_US, PREFERRED, TRUE) } \cup
                { Member(id(2 + k), REFSET_US, ACCEPTABLE, TRUE) : k \in 1 .. ManySynonyms }

(***************************************************************************)
(* get_expansion as an operation of its own: the expanded set, the         *)
(* language, count and offset are its inputs.                              *)
(***************************************************************************)
MaxCount  == 2      \* largest count requested (count <= 100 < MAX_TERMS_PER_QUERY in the source)
MaxOffset == 3      \* largest offset requested

DetailCodes == {2, 10}          \* the concepts that own descriptions
PageCodes   == {1, 2, 10}       \* the concepts an expanded set is drawn from

get_expansion_call ==
    /\ op = "get_expansion" /\ pc = "call"
    /\ \E r \in get_expansion(request.concept_ids, request.display_language,
                              request.count, request.offset) :
          /\ response' = [contains |-> r.contains, total |-> r.total]
          /\ raised' = r.raised
    /\ pc' = "done"
    /\ UNCHANGED <<op, workers, previous, storeVars, request, fdVars, evVars>>

InitGetExpansion ==
    /\ op = "get_expansion"
    /\ concepts = { [id |-> c, active |-> TRUE] : c \in PageCodes }
    /\ relationships = {}
    /\ \E prof \in [DetailCodes -> Profiles] :
          /\ descriptions = UNION { ProfileDescriptions(c, prof[c]) : c \in DetailCodes }
          /\ language_refsets = UNION { ProfileMembers(c, prof[c]) : c \in DetailCodes }
    /\ request \in [concept_ids : SUBSET PageCodes,
                    display_language : {"en", "es"},
                    count : 0 .. MaxCount,
                    offset : 0 .. MaxOffset]
    /\ all_descendants = {}
    /\ current_level = {}
    /\ depth = 0
    /\ all_concept_ids = {}
    /\ exclude_concept_ids = {}
    /\ cursor = None
    /\ raised = FALSE
    /\ pc = "call"
    /\ response = None
    /\ previous = None
    /\ workers = <<>>

NextGetExpansion == get_expansion_call

SpecGetExpansion == InitGetExpansion /\ [][NextGetExpansion]_vars

(***************************************************************************)
(* get_filtered_expansion as an operation of its own: the candidate set    *)
(* and the filter text are the inputs.  The same request is run twice      *)
(* against the unchanged store; previous keeps the answer of the first.    *)
(***************************************************************************)
FilterCodes == {1, 2, 3, 4}

FilterTexts == { <<"a", "b">>, <<"a">>, <<"A", "B", "TAB">>, <<"c">> }

FilterDescriptions ==
    { Desc(101, 1, SYNONYM, <<"a", "b">>, "en", TRUE),
      Desc(102, 1, FSN, <<"a", "b", " ", "(", "x", ")">>, "en", TRUE),
      Desc(201, 2, SYNONYM, <<"A", "b", " ", "c">>, "en", TRUE),
      Desc(301, 3, SYNONYM, <<"a", "b">>, "en", TRUE),
      Desc(401, 4, SYNONYM, <<"c", " ", "a", "b">>, "en", TRUE),
      Desc(402, 4, SYNONYM, <<"a", "b", "c">>, "en", FALSE),
      Desc(403, 4, SYNONYM, <<"a", "b">>, "es", TRUE) }

get_filtered_expansion_call ==
    /\ op = "get_filtered_expansion" /\ pc \in {"call", "again"}
    /\ \E r \in get_filtered_expansion(request.concept_ids, request.filter_text,
                                       request.display_language, request.count,
                                       request.offset) :
          /\ response' = [contains |-> r.contains, total |-> r.total]
          /\ raised' = (raised \/ r.raised)
    /\ previous' = response
    /\ pc' = IF pc = "call" THEN "again" ELSE "done"
    /\ UNCHANGED <<op, workers, storeVars, request, fdVars, evVars>>

InitGetFilteredExpansion ==
    /\ op = "get_filtered_expansion"
    /\ concepts = { [id |-> c, active |-> TRUE] : c \in FilterCodes }
    /\ relationships = {}
    /\ descriptions = FilterDescriptions
    /\ language_refsets = {}
    /\ request \in [ concept_ids : SUBSET FilterCodes,
                     filter_text : FilterTexts,
                     display_language : {"en"},
                     count : 0 .. MaxCount,
                     offset : 0 .. MaxOffset ]
    /\ all_descendants = {}
    /\ current_level = {}
    /\ depth = 0
    /\ all_concept_ids = {}
    /\ exclude_concept_ids = {}
    /\ cursor = None
    /\ raised = FALSE
    /\ pc = "call"
    /\ response = None
    /\ previous = None
    /\ workers = <<>>

NextGetFilteredExpansion == get_filtered_expansion_call

SpecGetFilteredExpansion == InitGetFilteredExpansion /\ [][NextGetFilteredExpansion]_vars

(***************************************************************************)
(* expand_view.  A compose clause is [system, has_concept, concept,        *)
(* has_filter, filter]: has_concept is "'concept' in include", concept the *)
(* codes of its entries; a filter is [property, op, value], value being    *)
(* the comma separated codes of the str (one code for is-a and =).         *)
(***************************************************************************)
OTHER_SYSTEM == "http://hl7.org/fhir/sid/icd-10"
NO_SYSTEM    == "no system"                 \* the clause has no "system" key
COUNT_CAP    == 100

\* the concept a filter value names: the value itself when it is one code
NoCode == 0
value_code(value) == IF Len(value) = 1 THEN value[1] ELSE NoCode

\* concept_exists of expand.py: found in the concepts index; "except: return False"
concept_exists(concept_id) ==
    { [result |-> \E c \in concepts : c.id = concept_id, raised |-> FALSE],
      [result |-> FALSE, raised |-> TRUE] }

RECURSIVE find_descendants_loop(_, _, _, _)
\* the while loop of find_descendants from one of its states: every result
\* [value, raised], the relationship query of any level answering or raising
find_descendants_loop(all_desc, level, d, concept_id) ==
    IF ~fd_continue(level, d) THEN { [value |-> all_desc, raised |-> FALSE] }
    ELSE { [value |-> all_desc, raised |-> TRUE] } \cup
         LET next_level == get_children_composite(level)
             new        == new_descendants(next_level, all_desc, concept_id)
         IN  IF new = {} THEN { [value |-> all_desc, raised |-> FALSE] }
             ELSE find_descendants_loop(all_desc \cup new, new, d + 1, concept_id)

find_descendants(concept_id) == find_descendants_loop({}, {concept_id}, 0, concept_id)

\* one filter of a clause: the ids it contributes
filter_concept_ids(filter_def) ==
    IF filter_def.property = "concept" /\ filter_def.op = "is-a"
    THEN LET value == value_code(filter_def.value)
         IN  UNION { IF ~e.result
                     THEN { [ids |-> {}, raised |-> e.raised] }
                     ELSE { [ids |-> r.value \cup {value}, raised |-> r.raised] :
                              r \in find_descendants(value) } :
                     e \in concept_exists(value) }
    ELSE { [ids |-> {}, raised |-> FALSE] }

RECURSIVE filters_concept_ids(_)
\* the loop over the filters of a clause
filters_concept_ids(filters) ==
    IF filters = <<>> THEN { [ids |-> {}, raised |-> FALSE] }
    ELSE { [ids |-> f.ids \cup r.ids, raised |-> f.raised \/ r.raised] :
             f \in filter_concept_ids(Head(filters)),
             r \in filters_concept_ids(Tail(filters)) }

\* a SNOMED clause: its direct codes and what its filters contribute
clause_concept_ids(clause) ==
    { [ids |-> Range(clause.concept) \cup r.ids, raised |-> r.raised] :
        r \in filters_concept_ids(clause.filter) }

\* count = min(param_dict.get('count', 10), 100)
count_of(req) == Min(req.count, COUNT_CAP)

\* "if display_language in ['en-gb', 'en-us']: display_language = 'en'"
display_language_of(req) ==
    IF req.display_language \in {"en-gb", "en-us"} THEN "en" ELSE req.display_language

includes_of(req) == req.value_set.include
excludes_of(req) == req.value_set.exclude

\* where the handler goes when clause i of a loop is done
after_include(i) ==
    IF i < Len(includes_of(request)) THEN "include"
    ELSE IF excludes_of(request) # <<>> THEN "exclude"
    ELSE "respond"

after_exclude(i) == IF i < Len(excludes_of(request)) THEN "exclude" ELSE "respond"

OperationOutcome(status, code) == [kind |-> "OperationOutcome", status |-> status, code |-> code]

expand_view_missing_value_set ==
    /\ op = "expand_view" /\ pc = "start"
    /\ ~request.value_set.present
    /\ response' = OperationOutcome(400, "required")
    /\ pc' = "done"
    /\ UNCHANGED <<op, workers, previous, storeVars, request, fdVars, evVars, raised>>

expand_view_no_include ==
    /\ op = "expand_view" /\ pc = "start"
    /\ request.value_set.present
    /\ includes_of(request) = <<>>
    /\ response' = OperationOutcome(400, "required")
    /\ pc' = "done"
    /\ UNCHANGED <<op, workers, previous, storeVars, request, fdVars, evVars, raised>>

expand_view_begin ==
    /\ op = "expand_view" /\ pc = "start"
    /\ request.value_set.present
    /\ includes_of(request) # <<>>
    /\ all_concept_ids' = {}
    /\ exclude_concept_ids' = {}
    /\ cursor' = 1
    /\ pc' = "include"
    /\ UNCHANGED <<op, workers, previous, storeVars, request, fdVars, raised, response>>

\* a LOINC include: the LOINC engine answers the whole request
expand_view_include_loinc ==
    /\ op = "expand_view" /\ pc = "include"
    /\ includes_of(request)[cursor].system = LOINC
    /\ response' = [kind |-> "loinc"]
    /\ pc' = "done"
    /\ UNCHANGED <<op, workers, previous, storeVars, request, fdVars, evVars, raised>>

\* a LOINC include whose engine raises: the handler of expand_view answers 500
expand_view_include_loinc_error ==
    /\ op = "expand_view" /\ pc = "include"
    /\ includes_of(request)[cursor].system = LOINC
    /\ response' = OperationOutcome(500, "exception")
    /\ raised' = TRUE
    /\ pc' = "done"
    /\ UNCHANGED <<op, workers, previous, storeVars, request, fdVars, evVars>>

\* an include of another system, or of none: "continue"
expand_view_include_skip ==
    /\ op = "expand_view" /\ pc = "include"
    /\ includes_of(request)[cursor].system \notin {SNOMED, LOINC}
    /\ pc' = after_include(cursor)
    /\ cursor' = IF after_include(cursor) = "include" THEN cursor + 1 ELSE 1
    /\ UNCHANGED <<op, workers, previous, storeVars, request, fdVars, all_concept_ids,
                   exclude_concept_ids, raised, response>>

expand_view_include_snomed ==
    /\ op = "expand_view" /\ pc = "include"
    /\ includes_of(request)[cursor].system = SNOMED
    /\ \E r \in clause_concept_ids(includes_of(request)[cursor]) :
          /\ all_concept_ids' = all_concept_ids \cup r.ids
          /\ raised' = (raised \/ r.raised)
    /\ pc' = after_include(cursor)
    /\ cursor' = IF after_include(cursor) = "include" THEN cursor + 1 ELSE 1
    /\ UNCHANGED <<op, workers, previous, storeVars, request, fdVars, exclude_concept_ids, response>>

expand_view_exclude_skip ==
    /\ op = "expand_view" /\ pc = "exclude"
    /\ excludes_of(request)[cursor].system # SNOMED
    /\ pc' = after_exclude(cursor)
    /\ cursor' = IF after_exclude(cursor) = "exclude" THEN cursor + 1 ELSE 1
    /\ UNCHANGED <<op, workers, previous, storeVars, request, fdVars, all_concept_ids,
                   exclude_concept_ids, raised, response>>

expand_view_exclude_snomed ==
    /\ op = "expand_view" /\ pc = "exclude"
    /\ excludes_of(request)[cursor].system = SNOMED
    /\ \E r \in clause_concept_ids(excludes_of(request)[cursor]) :
          /\ exclude_concept_ids' = exclude_concept_ids \cup r.ids
          /\ raised' = (raised \/ r.raised)
    /\ pc' = after_exclude(cursor)
    /\ cursor' = IF after_exclude(cursor) = "exclude" THEN cursor + 1 ELSE 1
    /\ UNCHANGED <<op, workers, previous, storeVars, request, fdVars, all_concept_ids, response>>

\* "all_concept_ids -= exclude_concept_ids", then the page and the response
expand_view_respond ==
    /\ op = "expand_view" /\ pc = "respond"
    /\ LET remaining == all_concept_ids \ exclude_concept_ids
       IN  /\ all_concept_ids' = remaining
           /\ \E r \in IF request.filter_text # <<>>
                       THEN get_filtered_expansion(remaining, request.filter_text,
                                display_language_of(request), count_of(request), request.offset)
                       ELSE get_expansion(remaining, display_language_of(request),
                                count_of(request), request.offset) :
                 /\ response' = [kind |-> "expansion", status |-> 200,
                                 total |-> r.total, offset |-> request.offset,
                                 contains |-> r.contains]
                 /\ raised' = (raised \/ r.raised)
    /\ pc' = "done"
    /\ UNCHANGED <<op, workers, previous, storeVars, request, fdVars, exclude_concept_ids, cursor>>

(***************************************************************************)
(* The requests and the stores expand_view is explored on.                 *)
(***************************************************************************)
MaxClauses == 2      \* include plus exclude clauses of a compose

clause(system, has_concept, concept, has_filter, filter) ==
    [system |-> system, has_concept |-> has_concept, concept |-> concept,
     has_filter |-> has_filter, filter |-> filter]

is_a(v) == [property |-> "concept", op |-> "is-a", value |-> <<v>>]

Clauses ==
    { clause(SNOMED, TRUE, <<2>>, FALSE, <<>>),
      clause(SNOMED, FALSE, <<>>, TRUE, <<is_a(1)>>),
      clause(SNOMED, FALSE, <<>>, TRUE, <<is_a(2)>>),
      clause(SNOMED, TRUE, <<4>>, TRUE,
             << [property |-> "concept", op |-> "=", value |-> <<2>>], is_a(3) >>),
      clause(SNOMED, FALSE, <<>>, FALSE, <<>>),
      clause(NO_SYSTEM, FALSE, <<>>, TRUE,
             << [property |-> "concept", op |-> "in", value |-> <<3, 4>>] >>),
      clause(OTHER_SYSTEM, TRUE, <<3>>, FALSE, <<>>),
      clause(LOINC, FALSE, <<>>, FALSE, <<>>) }

ClauseLists(n) == UNION { [1 .. k -> Clauses] : k \in 0 .. n }

ValueSets ==
    { [present |-> FALSE, include |-> <<>>, exclude |-> <<>>] } \cup
    { [present |-> TRUE, include |-> inc, exclude |-> exc] :
        inc \in ClauseLists(MaxClauses), exc \in ClauseLists(MaxClauses) }

\* a small hierarchy: 2 and 3 under 1, 4 under 2; a retired and a non IS-A relationship
Tree ==
    { Rel(2, 1, IS_A, TRUE), Rel(3, 1, IS_A, TRUE), Rel(4, 2, IS_A, TRUE),
      Rel(4, 3, IS_A, FALSE), Rel(3, 2, OTHER_REL, TRUE) }

AllConcepts == { [id |-> c, active |-> TRUE] : c \in Codes }

\* [relationships, concepts]: a long chain; the tree; the tree with concept 2 absent; retired
ExpandStores ==
    { [relationships |-> Chain(ChainMax), concepts |-> AllConcepts],
      [relationships |-> Tree, concepts |-> AllConcepts],
      [relationships |-> Tree, concepts |-> { c \in AllConcepts : c.id # 2 }],
      [relationships |-> Tree,
       concepts |-> { c \in AllConcepts : c.id # 2 } \cup { [id |-> 2, active |-> FALSE] }] }

\* [filter_text, count, offset, display_language] of a request
ExpandParams ==
    { [filter_text |-> <<>>, count |-> 2, offset |-> 0, display_language |-> "en"],
      [filter_text |-> <<>>, count |-> -1, offset |-> 0, display_language |-> "en"],
      [filter_text |-> <<>>, count |-> 2, offset |-> -1, display_language |-> "en"],
      [filter_text |-> <<>>, count |-> 2, offset |-> 0, display_language |-> "en-gb"],
      [filter_text |-> <<>>, count |-> COUNT_CAP + 50, offset |-> 1, display_language |-> "en-gb"],
      [filter_text |-> <<"a">>, count |-> 2, offset |-> 0, display_language |-> "en"],
      [filter_text |-> <<"A", "B">>, count |-> COUNT_CAP + 50, offset |-> 1,
       display_language |-> "en-gb"] }

\* the descriptions of the text search, and a second Synonym of concept 1
ExpandDescriptions ==
    FilterDescriptions \cup { Desc(103, 1, SYNONYM, <<"a", "c">>, "en", TRUE) }

\* concept 1: "ab" is Preferred in the US refset, "ac" in the GB refset
ExpandMembers ==
    { Member(101, REFSET_US, PREFERRED, TRUE), Member(103, REFSET_US, ACCEPTABLE, TRUE),
      Member(101, REFSET_GB, ACCEPTABLE, TRUE), Member(103, REFSET_GB, PREFERRED, TRUE) }

InitExpandView ==
    /\ op = "expand_view"
    /\ \E st \in ExpandStores :
          /\ relationships = st.relationships
          /\ concepts = st.concepts
    /\ descriptions = ExpandDescriptions
    /\ language_refsets = ExpandMembers
    /\ \E vs \in ValueSets, prm \in ExpandParams :
          /\ Len(vs.include) + Len(vs.exclude) <= MaxClauses
          /\ vs.include = <<>> => vs.exclude = <<>>
          \* text search is explored on the small hierarchy
          /\ prm.filter_text # <<>> => relationships = Tree
          /\ request = [value_set |-> vs, filter_text |-> prm.filter_text,
                        count |-> prm.count, offset |-> prm.offset,
                        display_language |-> prm.display_language]
    /\ all_descendants = {}
    /\ current_level = {}
    /\ depth = 0
    /\ all_concept_ids = {}
    /\ exclude_concept_ids = {}
    /\ cursor = None
    /\ raised = FALSE
    /\ pc = "start"
    /\ response = None
    /\ previous = None
    /\ workers = <<>>

NextExpandView ==
    \/ expand_view_missing_value_set
    \/ expand_view_no_include
    \/ expand_view_begin
    \/ expand_view_include_loinc
    \/ expand_view_include_loinc_error
    \/ expand_view_include_skip
    \/ expand_view_include_snomed
    \/ expand_view_exclude_skip
    \/ expand_view_exclude_snomed
    \/ expand_view_respond

SpecExpandView == InitExpandView /\ [][NextExpandView]_vars

(***************************************************************************)
(* validate_code_against_valueset (POC-1-standard).  The result of the     *)
(* validation: every [result, raised] the call can have.                   *)
(***************************************************************************)
ancestors_max_depth == 15

\* concept_exists of validate_code.py: found and active; "except: return False"
validate_concept_exists(concept_id) ==
    { [result |-> \E c \in concepts : c.id = concept_id /\ c.active, raised |-> FALSE],
      [result |-> FALSE, raised |-> TRUE] }

\* get_concept_parents: the destinations of the hits; "except: return set()"
get_concept_parents(concept_ids) ==
    { [value |-> {}, raised |-> TRUE] } \cup
    { [value |-> { r.destination_id : r \in hits }, raised |-> FALSE] :
        hits \in search_hits({ x \in relationships :
                                 /\ x.source_id \in concept_ids
                                 /\ x.type_id = IS_A
                                 /\ x.active },
                             Cardinality(concept_ids) * 20) }

RECURSIVE get_concept_ancestors_loop(_, _, _, _)
\* the while loop of get_concept_ancestors from one of its states
get_concept_ancestors_loop(ancestors, level, d, concept_id) ==
    IF ~(level # {} /\ d < ancestors_max_depth)
    THEN { [value |-> ancestors, raised |-> FALSE] }
    ELSE UNION { LET new_ancestors == (p.value \ ancestors) \ {concept_id}
                 IN  IF new_ancestors = {}
                     THEN { [value |-> ancestors, raised |-> p.raised] }
                     ELSE { [value |-> r.value, raised |-> r.raised \/ p.raised] :
                              r \in get_concept_ancestors_loop(
                                        ancestors \cup new_ancestors, new_ancestors,
                                        d + 1, concept_id) } :
                 p \in get_concept_parents(level) }

get_concept_ancestors(concept_id) ==
    get_concept_ancestors_loop({}, {concept_id}, 0, concept_id)

check_code_against_filter(code, filter_def) ==
    IF filter_def.property = "concept" /\ filter_def.op = "is-a"
    THEN IF filter_def.value = <<code>>
         THEN { [result |-> TRUE, raised |-> FALSE] }
         ELSE { [result |-> value_code(filter_def.value) \in a.value, raised |-> a.raised] :
                  a \in get_concept_ancestors(code) }
    ELSE IF filter_def.property = "concept" /\ filter_def.op = "="
    THEN { [result |-> filter_def.value = <<code>>, raised |-> FALSE] }
    ELSE IF filter_def.property = "concept" /\ filter_def.op = "in"
    THEN { [result |-> code \in Range(filter_def.value), raised |-> FALSE] }
    ELSE { [result |-> FALSE, raised |-> FALSE] }

RECURSIVE code_matches_filters(_, _)
\* "for filter_def in filters: if check_code_against_filter(...): ...; break"
code_matches_filters(code, filters) ==
    IF filters = <<>> THEN { [result |-> FALSE, raised |-> FALSE] }
    ELSE UNION { IF f.result
                 THEN { [result |-> TRUE, raised |-> f.raised] }
                 ELSE { [result |-> r.result, raised |-> r.raised \/ f.raised] :
                          r \in code_matches_filters(code, Tail(filters)) } :
                 f \in check_code_against_filter(code, Head(filters)) }

\* one clause of the include loop (is_include) or of the exclude loop
code_in_clause(code, cl, is_include) ==
    IF cl.system \notin {NO_SYSTEM, SNOMED}
    THEN { [result |-> FALSE, raised |-> FALSE] }
    ELSE { [result |-> \/ (cl.has_concept /\ code \in Range(cl.concept))
                       \/ (cl.has_filter /\ f.result)
                       \/ (is_include /\ ~cl.has_concept /\ ~cl.has_filter),
            raised |-> cl.has_filter /\ f.raised] :
             f \in IF cl.has_filter THEN code_matches_filters(code, cl.filter)
                   ELSE { [result |-> FALSE, raised |-> FALSE] } }

RECURSIVE code_in_clauses(_, _, _)
\* the loop over the clauses: the flag is set when one clause holds the code
code_in_clauses(code, cls, is_include) ==
    IF cls = <<>> THEN { [result |-> FALSE, raised |-> FALSE] }
    ELSE { [result |-> h.result \/ t.result, raised |-> h.raised \/ t.raised] :
             h \in code_in_clause(code, Head(cls), is_include),
             t \in code_in_clauses(code, Tail(cls), is_include) }

validate_code_against_valueset(code, value_set) ==
    UNION { IF ~e.result
            THEN { [result |-> FALSE, raised |-> e.raised] }
            ELSE IF ~value_set.present
            THEN { [result |-> TRUE, raised |-> FALSE] }
            ELSE { [result |-> inc.result /\ ~exc.result,
                    raised |-> inc.raised \/ exc.raised] :
                     inc \in code_in_clauses(code, value_set.include, TRUE),
                     exc \in code_in_clauses(code, value_set.exclude, FALSE) } :
            e \in validate_concept_exists(code) }

ValidateCodes == {1, 2, 3, 4, ChainMax}

validate_code_call ==
    /\ op = "validate_code" /\ pc = "call"
    /\ \E r \in validate_code_against_valueset(request.code, request.value_set) :
          /\ response' = [kind |-> "Parameters", result |-> r.result]
          /\ raised' = r.raised
    /\ pc' = "done"
    /\ UNCHANGED <<op, workers, previous, storeVars, request, fdVars, evVars>>

InitValidateCode ==
    /\ op = "validate_code"
    /\ \E st \in ExpandStores :
          /\ relationships = st.relationships
          /\ concepts = st.concepts
    /\ descriptions = FilterDescriptions
    /\ language_refsets = { Member(101, REFSET_US, PREFERRED, TRUE) }
    /\ \E vs \in ValueSets, code \in ValidateCodes :
          /\ Len(vs.include) + Len(vs.exclude) <= MaxClauses
          /\ request = [code |-> code, value_set |-> vs]
    /\ all_descendants = {}
    /\ current_level = {}
    /\ depth = 0
    /\ all_concept_ids = {}
    /\ exclude_concept_ids = {}
    /\ cursor = None
    /\ raised = FALSE
    /\ pc = "call"
    /\ response = None
    /\ previous = None
    /\ workers = <<>>

NextValidateCode == validate_code_call

SpecValidateCode == InitValidateCode /\ [][NextValidateCode]_vars

(***************************************************************************)
(* $validate-code, the whole view: validate_code_view with the display of  *)
(* the code, the comparison of the supplied display and the message.  A    *)
(* message is the sequence of its pieces: the constant pieces of the       *)
(* f-string, and the characters of the values formatted into it.           *)
(***************************************************************************)
PREFERRED_TERM_SIZE == 50

\* get_preferred_term: "except: return None" on a failure of one of its searches
get_preferred_term(concept_id, display_language) ==
    LET synonyms == { d \in descriptions : /\ d.concept_id = concept_id
                                           /\ d.active
                                           /\ d.language_code = display_language
                                           /\ d.type_id = SYNONYM }
        preferred(hits) == { m \in language_refsets :
                               /\ m.referenced_component_id \in { d.id : d \in hits }
                               /\ m.refset_id = refset_map(display_language)
                               /\ m.active
                               /\ m.acceptability_id = PREFERRED }
    IN  { [term |-> NoTerm, raised |-> TRUE] } \cup
        UNION { IF hits = {} THEN { [term |-> NoTerm, raised |-> FALSE] }
                ELSE IF preferred(hits) # {}
                THEN { [term |-> d.term, raised |-> FALSE] :
                         d \in { e \in hits : \E m \in preferred(hits) :
                                                 m.referenced_component_id = e.id } }
                ELSE { [term |-> d.term, raised |-> FALSE] : d \in hits } :
                hits \in search_hits(synonyms, PREFERRED_TERM_SIZE) }

\* get_concept_display: the preferred term, else any active Synonym ("size": 1),
\* else any active FSN, else None; "except: return None"
get_concept_display(concept_id, display_language) ==
    LET of_type(t) == { d \in descriptions : /\ d.concept_id = concept_id
                                             /\ d.active
                                             /\ d.language_code = display_language
                                             /\ d.type_id = t }
        fallback == IF of_type(SYNONYM) # {} THEN { d.term : d \in of_type(SYNONYM) }
                    ELSE IF of_type(FSN) # {} THEN { d.term : d \in of_type(FSN) }
                    ELSE {NoTerm}
    IN  UNION { IF p.term # NoTerm THEN { p }
                ELSE { [term |-> NoTerm, raised |-> TRUE] } \cup
                     { [term |-> t, raised |-> p.raised] : t \in fallback } :
                p \in get_preferred_term(concept_id, display_language) }

\* normalize_display_text: lower(), NFD without marks, "(" and ")" to blanks,
\* runs of white space to one blank, strip()
normalize_display_text(text) ==
    join(split(strip_diacritics(lower(text)), <<>>, Separators))

is_display_match(provided_display, actual_display) ==
    IF provided_display = NoTerm \/ actual_display = NoTerm THEN FALSE
    ELSE LET provided_normalized == normalize_display_text(provided_display)
             actual_normalized   == normalize_display_text(actual_display)
         IN  \/ provided_normalized = actual_normalized
             \/ contains_str(actual_normalized, provided_normalized)
             \/ contains_str(provided_normalized, actual_normalized)

\* build_validation_response: the Parameters resource, answered with status 200
build_validation_response(result, message, display) ==
    [kind |-> "Parameters", status |-> 200, result |-> result,
     message |-> message, display |-> display]

SUCCESSFUL == <<"Code validation successful">>

\* f"Code '{code}' not found in {system}"
code_not_found_unnamed(code, system) == <<"Code not found in ", system>>
code_not_found(code, system) == <<"Code '">> \o code_str(code) \o <<"' not found in ", system>>

\* f"Display '{display}' does not match expected display '{actual_display}'"
display_message(display, actual_display) ==
    <<"Display '">> \o display \o <<"' does not match expected display '">>
        \o actual_display \o <<"'">>

\* the display check of both validations: is there a mismatch to report
display_mismatch(display, actual_display) ==
    display # NoTerm /\ actual_display # NoTerm /\ ~is_display_match(display, actual_display)

(***************************************************************************)
(* validate_code_in_codesystem: every outcome [response, raised].          *)
(***************************************************************************)
validate_code_in_codesystem_strict(code, display, display_language, system) ==
    UNION { IF ~e.result
            THEN { [response |-> build_validation_response(
                                     FALSE, code_not_found(code, system), display),
                    raised |-> e.raised] }
            ELSE { [response |-> build_validation_response(
                                     ~display_mismatch(display, a.term),
                                     IF ~display_mismatch(display, a.term) THEN SUCCESSFUL
                                     ELSE <<"Code exists but ">>
                                              \o display_message(display, a.term),
                                     a.term),
                    raised |-> a.raised] :
                     a \in get_concept_display(code, display_language) } :
            e \in validate_concept_exists(code) }
validate_code_in_codesystem(code, display, display_language, system) ==
    UNION { IF ~e.result
            THEN { [response |-> build_validation_response(
                                     FALSE, code_not_found(code, system), display),
                    raised |-> e.raised] }
            ELSE { [response |-> build_validation_response(
                                     TRUE,
                                     IF ~display_mismatch(display, a.term) THEN SUCCESSFUL
                                     ELSE <<"Code exists but ">>
                                              \o display_message(display, a.term),
                                     a.term),
                    raised |-> a.raised] :
                     a \in get_concept_display(code, display_language) } :
            e \in validate_concept_exists(code) }

\* validate_code_against_valueset, "Build response message"
validation_message(code, code_included, code_excluded, display, actual_display) ==
    IF code_included /\ ~code_excluded
    THEN IF display_mismatch(display, actual_display)
         THEN SUCCESSFUL \o <<". Note: ">> \o display_message(display, actual_display)
         ELSE SUCCESSFUL
    ELSE IF ~code_included
    THEN <<"Code '">> \o code_str(code) \o <<"' is not included in the ValueSet">>
    ELSE <<"Code '">> \o code_str(code) \o <<"' is excluded from the ValueSet">>

(***************************************************************************)
(* validate_code_against_valueset with its response: every outcome         *)
(* [response, raised].  A value set that is not given ({}) with a url      *)
(* validates the code against the code system only.                        *)
(***************************************************************************)
validate_code_against_valueset_response(code, display, display_language, value_set) ==
    UNION { IF ~e.result
            THEN { [response |-> build_validation_response(
                                     FALSE, code_not_found(code, "SNOMED CT"), display),
                    raised |-> e.raised] }
            ELSE UNION {
                   IF ~value_set.present
                   THEN { [response |-> build_validation_response(TRUE, SUCCESSFUL, a.term),
                           raised |-> a.raised] }
                   ELSE { [response |-> build_validation_response(
                                            inc.result /\ ~exc.result,
                                            validation_message(code, inc.result, exc.result,
                                                               display, a.term),
                                            a.term),
                           raised |-> a.raised \/ inc.raised \/ exc.raised] :
                            inc \in code_in_clauses(code, value_set.include, TRUE),
                            exc \in code_in_clauses(code, value_set.exclude, FALSE) } :
                   a \in get_concept_display(code, display_language) } :
            e \in validate_concept_exists(code) }

\* "if not system: system = 'http://snomed.info/sct'"
system_of(req) == IF req.system = NO_SYSTEM THEN SNOMED ELSE req.system

(***************************************************************************)
(* validate_code_view: every outcome [response, raised] of a request.      *)
(***************************************************************************)
validate_code_view(req) ==
    IF req.code = NoCode
    THEN { [response |-> build_validation_response(
                             FALSE, <<"Missing required parameter: code">>, NoTerm),
            raised |-> FALSE] }
    ELSE IF system_of(req) # SNOMED
    THEN { [response |-> build_validation_response(
                             FALSE, <<"Unsupported code system: ", system_of(req)>>, NoTerm),
            raised |-> FALSE] }
    ELSE IF req.value_set.present \/ req.url
    THEN validate_code_against_valueset_response(
             req.code, req.display, display_language_of(req), req.value_set)
    ELSE validate_code_in_codesystem(
             req.code, req.display, display_language_of(req), system_of(req))

\* the request is answered by the branch of validate_code_view it takes
validate_code_view_answer ==
    /\ \E r \in validate_code_view(request) :
          /\ response' = r.response
          /\ raised' = r.raised
    /\ pc' = "done"
    /\ UNCHANGED <<op, workers, previous, storeVars, request, fdVars, evVars>>

\* "if not code": the code parameter is missing
validate_code_view_missing_code ==
    /\ op = "validate_code_view" /\ pc = "call"
    /\ request.code = NoCode
    /\ validate_code_view_answer

\* "if system != 'http://snomed.info/sct'"
validate_code_view_unsupported_system ==
    /\ op = "validate_code_view" /\ pc = "call"
    /\ request.code # NoCode
    /\ system_of(request) # SNOMED
    /\ validate_code_view_answer

\* "if value_set or url"
validate_code_view_valueset ==
    /\ op = "validate_code_view" /\ pc = "call"
    /\ request.code # NoCode
    /\ system_of(request) = SNOMED
    /\ request.value_set.present \/ request.url
    /\ validate_code_view_answer

\* "else": simple code system validation
validate_code_view_codesystem ==
    /\ op = "validate_code_view" /\ pc = "call"
    /\ request.code # NoCode
    /\ system_of(request) = SNOMED
    /\ ~(request.value_set.present \/ request.url)
    /\ validate_code_view_answer

(***************************************************************************)
(* The requests and the stores validate_code_view is explored on.          *)
(***************************************************************************)
\* no display; "AB" and "c" (each matches some of the terms); "x" (matches an FSN only)
ViewDisplays == { NoTerm, <<"A", "B">>, <<"c">>, <<"x">> }

ViewCodes == { NoCode, 1, 2, 4 }

\* no value set, and the composes of at most one include and one exclude clause
ViewValueSets ==
    { [present |-> FALSE, include |-> <<>>, exclude |-> <<>>] } \cup
    { [present |-> TRUE, include |-> inc, exclude |-> exc] :
        inc \in ClauseLists(1), exc \in ClauseLists(1) }

\* all concepts; concept 2 absent; concept 2 retired
ViewConcepts ==
    { AllConcepts,
      { c \in AllConcepts : c.id # 2 },
      { c \in AllConcepts : c.id # 2 } \cup { [id |-> 2, active |-> FALSE] } }

InitValidateCodeView ==
    /\ op = "validate_code_view"
    /\ relationships = Tree
    /\ concepts \in ViewConcepts
    /\ descriptions = ExpandDescriptions
    /\ language_refsets = ExpandMembers
    /\ \E code \in ViewCodes, system \in {NO_SYSTEM, SNOMED, OTHER_SYSTEM},
          display \in ViewDisplays, lang \in {"en", "en-gb"},
          vs \in ViewValueSets, url \in BOOLEAN :
          /\ url => ~vs.present
          /\ request = [code |-> code, system |-> system, display |-> display,
                        display_language |-> lang, value_set |-> vs, url |-> url]
    /\ all_descendants = {}
    /\ current_level = {}
    /\ depth = 0
    /\ all_concept_ids = {}
    /\ exclude_concept_ids = {}
    /\ cursor = None
    /\ raised = FALSE
    /\ pc = "call"
    /\ response = None
    /\ previous = None
    /\ workers = <<>>

NextValidateCodeView ==
    \/ validate_code_view_missing_code
    \/ validate_code_view_unsupported_system
    \/ validate_code_view_valueset
    \/ validate_code_view_codesystem

SpecValidateCodeView == InitValidateCodeView /\ [][NextValidateCodeView]_vars

(***************************************************************************)
(* $lookup: lookup_get_view (GET) and lookup_post_view (POST).  Every      *)
(* search of the two views asks for "size=1000" hits; the model scales     *)
(* this limit.  The designations, parents and children of a response are   *)
(* modelled as sets: the order of the lists is the order of the hits, and  *)
(* no property reads it.  A designation carries the id of its description  *)
(* (of) to keep two designations with the same value apart.                *)
(***************************************************************************)
LOOKUP_SIZE == 3

\* a document of the descriptions index with the "pt" field of pt_cache.py
LookupDesc(id, c, t, term, lang, a, pt) ==
    [id |-> id, concept_id |-> c, type_id |-> t, term |-> term,
     language_code |-> lang, active |-> a, pt |-> pt]

\* es.get(index="concepts", id=code, ignore=[404]).get("found")
concept_found(code) == \E c \in concepts : c.id = code

\* concept.get("active", True)
concept_active(code) == \E c \in concepts : c.id = code /\ c.active

\* the destinations of the hits of the parents query
lookup_parents(code) ==
    { { r.destination_id : r \in hits } :
        hits \in search_hits({ x \in relationships : /\ x.source_id = code
                                                     /\ x.type_id = IS_A
                                                     /\ x.active }, LOOKUP_SIZE) }

\* the sources of the hits of the children query
lookup_children(code) ==
    { { r.source_id : r \in hits } :
        hits \in search_hits({ x \in relationships : /\ x.destination_id = code
                                                     /\ x.type_id = IS_A
                                                     /\ x.active }, LOOKUP_SIZE) }

designation(d, us_role, gb_role) ==
    [of |-> d.id, language |-> d.language_code, type_id |-> d.type_id,
     value |-> d.term, us |-> us_role, gb |-> gb_role]

Parameters(code, display, designations, parents, children) ==
    [kind |-> "Parameters", status |-> 200, code |-> code, display |-> display,
     active |-> concept_active(code), designations |-> designations,
     parents |-> parents, children |-> children]

(***************************************************************************)
(* lookup_get_view.  The loop over the hits keeps the term of the last     *)
(* active description with pt = 1 and the term of the last active FSN;     *)
(* "last" is the order of the hits, which the store decides.               *)
(***************************************************************************)
get_display_terms(hits) ==
    LET act == { d \in hits : d.active }
    IN  IF { d \in act : d.pt = 1 } # {} THEN { d.term : d \in { e \in act : e.pt = 1 } }
        ELSE IF { d \in act : d.type_id = FSN } # {}
        THEN { d.term : d \in { e \in act : e.type_id = FSN } }
        ELSE {NoTerm}

\* role_code = PREFERRED if src.get("pt", 0) == 1 else ACCEPTABLE, for both contexts
get_designations(hits) ==
    { designation(d, IF d.pt = 1 THEN PREFERRED ELSE ACCEPTABLE,
                     IF d.pt = 1 THEN PREFERRED ELSE ACCEPTABLE) :
        d \in { e \in hits : e.active } }

\* the answers for a concept that was found, the searches answering
get_found(code) ==
    UNION { { Parameters(code, t, get_designations(hits), p, c) :
                t \in get_display_terms(hits),
                p \in lookup_parents(code), c \in lookup_children(code) } :
            hits \in search_hits({ d \in descriptions : d.concept_id = code },
                                 LOOKUP_SIZE) }

\* every outcome [response, raised] of a GET request
lookup_get_view_unguarded(req) ==
    IF req.system = NO_SYSTEM \/ req.code = NoCode
    THEN { [response |-> OperationOutcome(400, "required"), raised |-> FALSE] }
    ELSE IF req.system # SNOMED
    THEN { [response |-> OperationOutcome(400, "not-supported"), raised |-> FALSE] }
    ELSE { [response |-> OperationOutcome(500, "exception"), raised |-> TRUE] } \cup
         IF ~concept_found(req.code)
         THEN { [response |-> OperationOutcome(500, "exception"), raised |-> FALSE] }
         ELSE { [response |-> r, raised |-> FALSE] : r \in get_found(req.code) }
lookup_get_view(req) ==
    IF req.system = NO_SYSTEM \/ req.code = NoCode
    THEN { [response |-> OperationOutcome(400, "required"), raised |-> FALSE] }
    ELSE IF req.system # SNOMED
    THEN { [response |-> OperationOutcome(400, "not-supported"), raised |-> FALSE] }
    ELSE { [response |-> OperationOutcome(500, "exception"), raised |-> TRUE] } \cup
         IF ~concept_found(req.code)
         THEN { [response |-> OperationOutcome(404, "not-found"), raised |-> FALSE] }
         ELSE { [response |-> r, raised |-> FALSE] : r \in get_found(req.code) }

(***************************************************************************)
(* lookup_post_view.  The descriptions query keeps the active ones.  The   *)
(* members are read from the index "language_refset_members" with          *)
(* ignore=[404] inside a try: the result is {} when that index is missing  *)
(* or the search fails.  lang_refset_members is keyed by the description,  *)
(* so one member per description is kept, the last hit, whatever its       *)
(* refset.                                                                 *)
(***************************************************************************)
post_member_hits(desc_hits) ==
    { [members |-> {}, raised |-> TRUE], [members |-> {}, raised |-> FALSE] } \cup
    { [members |-> h, raised |-> FALSE] :
        h \in search_hits({ m \in language_refsets :
                              /\ m.referenced_component_id \in { d.id : d \in desc_hits }
                              /\ m.active }, LOOKUP_SIZE) }

\* lang_refset_members: description id -> acceptability of the member kept (None: no member)
post_lang_refset_members(desc_hits, member_hits) ==
    { f \in [ { d.id : d \in desc_hits } -> {PREFERRED, ACCEPTABLE, None} ] :
        \A id \in DOMAIN f :
            IF \E m \in member_hits : m.referenced_component_id = id
            THEN \E m \in member_hits : /\ m.referenced_component_id = id
                                        /\ m.acceptability_id = f[id]
            ELSE f[id] = None }

\* role_code is PREFERRED unless the member kept is Acceptable, for both contexts
post_role(acceptability) == IF acceptability = ACCEPTABLE THEN ACCEPTABLE ELSE PREFERRED

\* the designations that are listed: the Synonyms and the FSNs
post_designations(hits, members) ==
    { designation(d, post_role(members[d.id]), post_role(members[d.id])) :
        d \in { e \in hits : e.type_id \in {SYNONYM, FSN} } }

\* display_term: the term of the first hit that is a Synonym or an FSN
post_display_terms(hits) ==
    IF { d \in hits : d.type_id \in {SYNONYM, FSN} } = {} THEN {NoTerm}
    ELSE { d.term : d \in { e \in hits : e.type_id \in {SYNONYM, FSN} } }

\* "if requested_properties": a property is kept when its code was requested
post_property(requested_properties, prop_code, values) ==
    IF requested_properties # {} /\ prop_code \notin requested_properties THEN {} ELSE values

\* the answers [response, raised] for a concept that was found, the searches answering
post_found(code, requested_properties) ==
    UNION { UNION { UNION { { [response |-> Parameters(
                                    code, t, post_designations(hits, f),
                                    post_property(requested_properties, "parent", p),
                                    post_property(requested_properties, "child", c)),
                               raised |-> mh.raised] :
                                t \in post_display_terms(hits),
                                p \in lookup_parents(code), c \in lookup_children(code) } :
                            f \in post_lang_refset_members(hits, mh.members) } :
                    mh \in post_member_hits(hits) } :
            hits \in search_hits({ d \in descriptions : d.concept_id = code /\ d.active },
                                 LOOKUP_SIZE) }

\* every outcome [response, raised] of a POST request
lookup_post_view(req) ==
    IF ~req.is_parameters
    THEN { [response |-> OperationOutcome(400, "invalid"), raised |-> FALSE] }
    ELSE IF ~req.has_coding \/ req.system = NO_SYSTEM \/ req.code = NoCode
    THEN { [response |-> OperationOutcome(400, "required"), raised |-> FALSE] }
    ELSE IF req.system # SNOMED
    THEN { [response |-> OperationOutcome(400, "not-supported"), raised |-> FALSE] }
    ELSE { [response |-> OperationOutcome(500, "exception"), raised |-> TRUE] } \cup
         IF ~concept_found(req.code)
         THEN { [response |-> OperationOutcome(404, "not-found"), raised |-> FALSE] }
         ELSE post_found(req.code, req.requested_properties)

\* GET CodeSystem/$lookup
lookup_get_view_call ==
    /\ op = "lookup" /\ pc = "call" /\ request.method = "GET"
    /\ \E r \in lookup_get_view(request) :
          /\ response' = r.response
          /\ raised' = r.raised
    /\ pc' = "done"
    /\ UNCHANGED <<op, workers, previous, storeVars, request, fdVars, evVars>>

\* POST CodeSystem/$lookup/
lookup_post_view_call ==
    /\ op = "lookup" /\ pc = "call" /\ request.method = "POST"
    /\ \E r \in lookup_post_view(request) :
          /\ response' = r.response
          /\ raised' = r.raised
    /\ pc' = "done"
    /\ UNCHANGED <<op, workers, previous, storeVars, request, fdVars, evVars>>

(***************************************************************************)
(* The requests and the stores $lookup is explored on.                     *)
(***************************************************************************)
\* the small hierarchy with four children of concept 1
LookupRelationships == Tree \cup { Rel(5, 1, IS_A, TRUE), Rel(6, 1, IS_A, TRUE) }

\* concept 1: two Synonyms and an FSN; concept 2: a Synonym and a retired FSN;
\* concept 3: an FSN only; concept 4: an FSN and a Synonym, no member
LookupDescriptions(pt) ==
    { LookupDesc(101, 1, SYNONYM, <<"a", "b">>, "en", TRUE, pt),
      LookupDesc(102, 1, FSN, <<"a", "b", " ", "(", "x", ")">>, "en", TRUE, 0),
      LookupDesc(103, 1, SYNONYM, <<"a", "c">>, "en", TRUE, 0),
      LookupDesc(201, 2, SYNONYM, <<"A", "b", " ", "c">>, "en", TRUE, pt),
      LookupDesc(202, 2, FSN, <<"b", " ", "(", "x", ")">>, "en", FALSE, 0),
      LookupDesc(301, 3, FSN, <<"c", " ", "(", "x", ")">>, "en", TRUE, 0),
      LookupDesc(401, 4, FSN, <<"e", " ", "(", "x", ")">>, "en", TRUE, 0),
      LookupDesc(402, 4, SYNONYM, <<"e">>, "en", TRUE, 0) }

\* 101 and 201 are Preferred in the US refset; 103 is Preferred in the GB refset
LookupMembers ==
    { Member(101, REFSET_US, PREFERRED, TRUE), Member(101, REFSET_GB, ACCEPTABLE, TRUE),
      Member(103, REFSET_US, ACCEPTABLE, TRUE), Member(103, REFSET_GB, PREFERRED, TRUE),
      Member(102, REFSET_US, PREFERRED, TRUE), Member(102, REFSET_GB, PREFERRED, TRUE),
      Member(201, REFSET_US, PREFERRED, TRUE), Member(201, REFSET_GB, PREFERRED, TRUE),
      Member(301, REFSET_US, PREFERRED, TRUE), Member(301, REFSET_GB, PREFERRED, FALSE) }

LookupCodes == { NoCode, 1, 2, 3, 4 }

InitLookup ==
    /\ op = "lookup"
    /\ relationships = LookupRelationships
    /\ concepts \in ViewConcepts
    \* the pt field is set by pt_cache.py for the concepts of its value sets only
    /\ descriptions \in { LookupDescriptions(0), LookupDescriptions(1) }
    /\ language_refsets = LookupMembers
    /\ \E method \in {"GET", "POST"}, code \in LookupCodes,
          system \in {NO_SYSTEM, SNOMED, OTHER_SYSTEM},
          is_parameters \in BOOLEAN, has_coding \in BOOLEAN,
          requested_properties \in { {}, {"parent"} } :
          /\ method = "GET" =>
                is_parameters /\ has_coding /\ requested_properties = {}
          /\ ~has_coding => (code = NoCode /\ system = NO_SYSTEM)
          /\ request = [method |-> method, code |-> code, system |-> system,
                        is_parameters |-> is_parameters, has_coding |-> has_coding,
                        requested_properties |-> requested_properties]
    /\ all_descendants = {}
    /\ current_level = {}
    /\ depth = 0
    /\ all_concept_ids = {}
    /\ exclude_concept_ids = {}
    /\ cursor = None
    /\ raised = FALSE
    /\ pc = "call"
    /\ response = None
    /\ previous = None
    /\ workers = <<>>

NextLookup ==
    \/ lookup_get_view_call
    \/ lookup_post_view_call

SpecLookup == InitLookup /\ [][NextLookup]_vars

(***************************************************************************)
(* Concurrent requests.  The views are plain functions: every variable of  *)
(* a handler is a local of its call, the module-level names are the        *)
(* Elasticsearch client and the logger, and no view writes to the store.   *)
(* A worker is one request being served; its record holds the locals of    *)
(* its handler.  One step of a worker is one store call together with the  *)
(* local computation up to the next store call; the steps of the workers   *)
(* interleave in any order.                                                *)
(*   expand:   expand_view of the compose {include: [is-a code]}           *)
(*   validate: validate_code_against_valueset of code against              *)
(*             {include: [is-a root]}                                      *)
(*   lookup:   lookup_get_view of code                                     *)
(***************************************************************************)
NumWorkers == 2
Workers == 1 .. NumWorkers

Worker(kind, code, root, at) ==
    [kind |-> kind, code |-> code, root |-> root, pc |-> at,
     all_descendants |-> {}, ancestors |-> {}, current_level |-> {}, depth |-> 0,
     all_concept_ids |-> {}, hits |-> {}, parents |-> {},
     raised |-> FALSE, response |-> None]

\* the locals of worker w after a step
assign(w, locals) == [workers EXCEPT ![w] = locals @@ @]

\* "all_descendants = set()" of find_descendants: a local of the call
visited_by_any(w) == UNION { workers[v].all_descendants : v \in Workers }
visited_by(w) == workers[w].all_descendants

\* expand_view, is-a branch: "if not concept_exists(value): ... continue"
worker_concept_exists(w) ==
    /\ op = "concurrent"
    /\ workers[w].kind = "expand" /\ workers[w].pc = "exists"
    /\ \E e \in concept_exists(workers[w].code) :
          workers' = assign(w,
              IF ~e.result
              THEN [pc |-> "respond", raised |-> e.raised]
              ELSE [pc |-> "loop", current_level |-> {workers[w].code}])
    /\ UNCHANGED <<op, pc, storeVars, request, fdVars, evVars, raised, response, previous>>

\* find_descendants, one iteration of the while loop, and what follows the
\* loop in expand_view: "all_concept_ids.update(descendants); all_concept_ids.add(value)"
worker_find_descendants_level(w) ==
    /\ op = "concurrent"
    /\ workers[w].kind = "expand" /\ workers[w].pc = "loop"
    /\ LET me == workers[w]
       IN  \/ \* the relationship query raises: the descendants found so far are returned
              workers' = assign(w, [pc |-> "respond", raised |-> TRUE,
                                    all_concept_ids |-> visited_by(w) \cup {me.code}])
           \/ LET next_level == get_children_composite(me.current_level)
                  new        == new_descendants(next_level, visited_by(w), me.code)
                  found      == me.all_descendants \cup new
              IN  workers' = assign(w,
                      IF new = {} \/ ~fd_continue(new, me.depth + 1)
                      THEN [pc |-> "respond", all_descendants |-> found,
                            all_concept_ids |-> found \cup {me.code}]
                      ELSE [all_descendants |-> found, current_level |-> new,
                            depth |-> me.depth + 1])
    /\ UNCHANGED <<op, pc, storeVars, request, fdVars, evVars, raised, response, previous>>

\* expand_view: "return get_expansion(request, all_concept_ids, display_language, count, offset)"
worker_get_expansion(w) ==
    /\ op = "concurrent"
    /\ workers[w].kind = "expand" /\ workers[w].pc = "respond"
    /\ \E r \in get_expansion(workers[w].all_concept_ids, "en", MaxCount, 0) :
          workers' = assign(w,
              [pc |-> "done", raised |-> (workers[w].raised \/ r.raised),
               response |-> [kind |-> "expansion", status |-> 200, total |-> r.total,
                             offset |-> 0, contains |-> r.contains]])
    /\ UNCHANGED <<op, pc, storeVars, request, fdVars, evVars, raised, response, previous>>

\* validate_code_against_valueset: "if not concept_exists(code)", then the
\* is-a filter of the include clause, which names the code itself or asks
\* for its ancestors
worker_validate_concept_exists(w) ==
    /\ op = "concurrent"
    /\ workers[w].kind = "validate" /\ workers[w].pc = "exists"
    /\ \E e \in validate_concept_exists(workers[w].code) :
          workers' = assign(w,
              IF ~e.result
              THEN [pc |-> "done", raised |-> e.raised,
                    response |-> [kind |-> "Parameters", result |-> FALSE]]
              ELSE IF workers[w].root = workers[w].code
              THEN [pc |-> "done", response |-> [kind |-> "Parameters", result |-> TRUE]]
              ELSE [pc |-> "ancestors", current_level |-> {workers[w].code}])
    /\ UNCHANGED <<op, pc, storeVars, request, fdVars, evVars, raised, response, previous>>

\* get_concept_ancestors, one iteration of the while loop, and the test
\* "filter_value in ancestors" after the loop
worker_get_concept_ancestors_level(w) ==
    /\ op = "concurrent"
    /\ workers[w].kind = "validate" /\ workers[w].pc = "ancestors"
    /\ LET me == workers[w]
       IN  \E p \in get_concept_parents(me.current_level) :
              LET new_ancestors == (p.value \ me.ancestors) \ {me.code}
                  found         == me.ancestors \cup new_ancestors
              IN  workers' = assign(w,
                      IF new_ancestors = {} \/ ~(me.depth + 1 < ancestors_max_depth)
                      THEN [pc |-> "done", ancestors |-> found,
                            raised |-> (me.raised \/ p.raised),
                            response |-> [kind |-> "Parameters",
                                          result |-> me.root \in found]]
                      ELSE [ancestors |-> found, current_level |-> new_ancestors,
                            depth |-> me.depth + 1,
                            raised |-> (me.raised \/ p.raised)])
    /\ UNCHANGED <<op, pc, storeVars, request, fdVars, evVars, raised, response, previous>>

\* lookup_get_view: "except Exception" of the try around its store calls
lookup_failed == [pc |-> "done", raised |-> TRUE,
                  response |-> OperationOutcome(500, "exception")]

\* lookup_get_view: es.get(index="concepts", id=code, ignore=[404])
worker_lookup_concept(w) ==
    /\ op = "concurrent"
    /\ workers[w].kind = "lookup" /\ workers[w].pc = "concept"
    /\ \/ workers' = assign(w, lookup_failed)
       \/ workers' = assign(w,
              IF ~concept_found(workers[w].code)
              THEN [pc |-> "done", response |-> OperationOutcome(404, "not-found")]
              ELSE [pc |-> "descriptions"])
    /\ UNCHANGED <<op, pc, storeVars, request, fdVars, evVars, raised, response, previous>>

\* lookup_get_view: the descriptions search
worker_lookup_descriptions(w) ==
    /\ op = "concurrent"
    /\ workers[w].kind = "lookup" /\ workers[w].pc = "descriptions"
    /\ \/ workers' = assign(w, lookup_failed)
       \/ \E hits \in search_hits({ d \in descriptions : d.concept_id = workers[w].code },
                                  LOOKUP_SIZE) :
             workers' = assign(w, [pc |-> "parents", hits |-> hits])
    /\ UNCHANGED <<op, pc, storeVars, request, fdVars, evVars, raised, response, previous>>

\* lookup_get_view: the parents search
worker_lookup_parents(w) ==
    /\ op = "concurrent"
    /\ workers[w].kind = "lookup" /\ workers[w].pc = "parents"
    /\ \/ workers' = assign(w, lookup_failed)
       \/ \E p \in lookup_parents(workers[w].code) :
             workers' = assign(w, [pc |-> "children", parents |-> p])
    /\ UNCHANGED <<op, pc, storeVars, request, fdVars, evVars, raised, response, previous>>

\* lookup_get_view: the children search, then the Parameters resource
worker_lookup_children(w) ==
    /\ op = "concurrent"
    /\ workers[w].kind = "lookup" /\ workers[w].pc = "children"
    /\ \/ workers' = assign(w, lookup_failed)
       \/ \E c \in lookup_children(workers[w].code),
             t \in get_display_terms(workers[w].hits) :
             workers' = assign(w,
                 [pc |-> "done",
                  response |-> Parameters(workers[w].code, t,
                                          get_designations(workers[w].hits),
                                          workers[w].parents, c)])
    /\ UNCHANGED <<op, pc, storeVars, request, fdVars, evVars, raised, response, previous>>

\* the requests a worker may be serving
WorkerRequests ==
    << Worker("expand", 1, NoCode, "exists"), Worker("expand", 2, NoCode, "exists"),
       Worker("validate", 1, 1, "exists"), Worker("validate", 4, 1, "exists"),
       Worker("lookup", 2, NoCode, "concept") >>

InitConcurrent ==
    /\ op = "concurrent"
    /\ \E st \in { x \in ExpandStores : x.relationships = Tree } :
          /\ relationships = st.relationships
          /\ concepts = st.concepts
    /\ descriptions = LookupDescriptions(1)
    /\ language_refsets = LookupMembers
    \* workers are interchangeable: the requests are assigned in the order of the list
    /\ \E f \in [Workers -> 1 .. Len(WorkerRequests)] :
          /\ \A v, w \in Workers : v < w => f[v] <= f[w]
          /\ workers = [w \in Workers |-> WorkerRequests[f[w]]]
    /\ request = None
    /\ all_descendants = {}
    /\ current_level = {}
    /\ depth = 0
    /\ all_concept_ids = {}
    /\ exclude_concept_ids = {}
    /\ cursor = None
    /\ raised = FALSE
    /\ pc = "run"
    /\ response = None
    /\ previous = None

NextConcurrent ==
    \/ \E w \in Workers : worker_concept_exists(w)
    \/ \E w \in Workers : worker_find_descendants_level(w)
    \/ \E w \in Workers : worker_get_expansion(w)
    \/ \E w \in Workers : worker_validate_concept_exists(w)
    \/ \E w \in Workers : worker_get_concept_ancestors_level(w)
    \/ \E w \in Workers : worker_lookup_concept(w)
    \/ \E w \in Workers : worker_lookup_descriptions(w)
    \/ \E w \in Workers : worker_lookup_parents(w)
    \/ \E w \in Workers : worker_lookup_children(w)

SpecConcurrent == InitConcurrent /\ [][NextConcurrent]_vars

(***************************************************************************)
(* The additional score of one hit, as process_filtered_results and the    *)
(* batch loop compute it: the filter is the normalized filter of           *)
(* get_filtered_expansion, the term is the stored term as it is.           *)
(***************************************************************************)
DEFINITION_TYPE == "900000000000550004"     \* a description type that is neither Synonym nor FSN

\* "additional_score = calculate_additional_score(source["term"], normalized_filter, source["type_id"])"
calculate_additional_score_call ==
    /\ op = "additional_score" /\ pc = "call"
    /\ LET normalized_filter == normalize_search_text(request.filter_text)
       IN  response' = [normalized_filter |-> normalized_filter,
                        additional_score |-> calculate_additional_score(
                            request.term, normalized_filter, request.type_id)]
    /\ pc' = "done"
    /\ UNCHANGED <<op, workers, previous, storeVars, request, fdVars, evVars, raised>>

\* n times the character c
Repeat(c, n) == [i \in 1 .. n |-> c]

\* stored terms: plain, with capitals, with several words, with repeated
\* whitespace, with diacritics (precomposed and combining), and longer
\* than 100 characters
ScoreTerms ==
    { <<"a">>, <<"A">>, <<"a", "b">>, <<"a", " ", "b">>, <<"a", " ", "a">>,
      <<"c", " ", "a">>, <<"c", " ", "a", " ", "b">>, <<"a", " ", " ", "b">>,
      <<"e">>, <<"e_acute">>, <<"E_ACUTE">>, <<"e", "COMBINING_ACUTE">>,
      <<"e_acute", " ", "a">>, <<"b", "a">>,
      Repeat("a", LONG_TERM), Repeat("a", LONG_TERM + 1),
      <<"a", " ">> \o Repeat("a", LONG_TERM) }

\* filters as the client sends them
ScoreFilters ==
    { <<"a">>, <<"A">>, <<"a", " ", "b">>, <<"a", " ", " ", "b">>, <<" ", "a", "TAB">>,
      <<"e">>, <<"e_acute">>, <<"b">> }

InitAdditionalScore ==
    /\ op = "additional_score"
    /\ concepts = {}
    /\ relationships = {}
    /\ descriptions = {}
    /\ language_refsets = {}
    /\ request \in [ term : ScoreTerms, filter_text : ScoreFilters,
                     type_id : {SYNONYM, FSN, DEFINITION_TYPE} ]
    /\ all_descendants = {}
    /\ current_level = {}
    /\ depth = 0
    /\ all_concept_ids = {}
    /\ exclude_concept_ids = {}
    /\ cursor = None
    /\ raised = FALSE
    /\ pc = "call"
    /\ response = None
    /\ previous = None
    /\ workers = <<>>

NextAdditionalScore == calculate_additional_score_call

SpecAdditionalScore == InitAdditionalScore /\ [][NextAdditionalScore]_vars

(***************************************************************************)
(* The whole model: one request of any kind, or concurrent requests.       *)
(***************************************************************************)
Init ==
    \/ InitFindDescendants
    \/ InitGetExpansion
    \/ InitGetFilteredExpansion
    \/ InitExpandView
    \/ InitValidateCode
    \/ InitValidateCodeView
    \/ InitLookup
    \/ InitConcurrent
    \/ InitAdditionalScore

Next ==
    \/ NextFindDescendants
    \/ NextGetExpansion
    \/ NextGetFilteredExpansion
    \/ NextExpandView
    \/ NextValidateCode
    \/ NextValidateCodeView
    \/ NextLookup
    \/ NextConcurrent
    \/ NextAdditionalScore

Spec == Init /\ [][Next]_vars

(***************************************************************************)
(* Reference definitions for the properties: the IS-A graph of the store   *)
(* and reachability in it, defined without reference to the traversal.     *)
(***************************************************************************)
IsAEdges ==
    { <<r.source_id, r.destination_id>> :
        r \in { x \in relationships : x.type_id = IS_A /\ x.active } }

RECURSIVE HasPath(_, _, _)
\* a path c -> ... -> root of at least one and at most n active IS-A edges
HasPath(c, root, n) ==
    /\ n > 0
    /\ \/ <<c, root>> \in IsAEdges
       \/ \E m \in Codes \ {c} : <<c, m>> \in IsAEdges /\ HasPath(m, root, n - 1)

Descendants(root) == { c \in Codes : HasPath(c, root, Cardinality(Codes)) }

FdReturned == op = "find_descendants" /\ pc = "done"

(***************************************************************************)
(* C2: find_descendants(root) returns every concept from which root is     *)
(* reachable by a path of one or more active IS-A edges, whatever the      *)
(* length of the path (stated for the traversals in which no query         *)
(* raised).                                                                *)
(***************************************************************************)
C2_FullDescendantSet ==
    (FdReturned /\ ~raised) =>
        \A c \in Descendants(request.concept_id) : c \in response.value

(***************************************************************************)
(* C3: every concept find_descendants(root) returns has a path of active   *)
(* IS-A edges of length >= 1 to root, and root is never in the returned    *)
(* set, also with a cycle through root or a self-loop on root.             *)
(***************************************************************************)
C3_ClosureSound ==
    FdReturned =>
        /\ response.value \subseteq Descendants(request.concept_id)
        /\ request.concept_id \notin response.value

\* a traversal from a root that lies on a cycle and has a self-loop returned
\* the other members of the cycle
C3_Witness ==
    /\ FdReturned
    /\ request.concept_id = 1
    /\ {<<1, 1>>, <<1, 3>>, <<3, 2>>, <<2, 1>>} \subseteq IsAEdges
    /\ {2, 3} \subseteq response.value

(***************************************************************************)
(* C4: when a relationship query fails during the traversal, the failure   *)
(* is surfaced to the caller as an error and no partial set is returned    *)
(* as the result.                                                          *)
(***************************************************************************)
C4_FailureSurfaced ==
    (FdReturned /\ raised) => response.kind = "error"

(***************************************************************************)
(* Reference definitions for get_expansion.                                *)
(***************************************************************************)
GeReturned == op = "get_expansion" /\ pc = "done"

\* the number of codes of S that sort before c (ascending by code)
CodeRank(c, S) == Cardinality({ d \in S : str_lt(code_str(d), code_str(c)) })

\* the codes at positions [offset, offset + count) of S sorted ascending by code
ExpectedPage(S, offset, count) ==
    LET n == Max(0, Min(count, Cardinality(S) - offset))
    IN  [i \in 1 .. n |-> CHOOSE c \in S : CodeRank(c, S) = offset + i - 1]

(***************************************************************************)
(* C9: for an expand without filter text, the page has exactly one entry   *)
(* for each code at positions [offset, offset+count) of the expanded set   *)
(* sorted ascending by code, in that order, and total is the size of the   *)
(* whole expanded set.                                                     *)
(***************************************************************************)
C9_PlainPage ==
    GeReturned =>
        LET page == ExpectedPage(request.concept_ids, request.offset, request.count)
        IN  /\ response.total = Cardinality(request.concept_ids)
            /\ Len(response.contains) = Len(page)
            /\ \A i \in 1 .. Len(page) : response.contains[i].code = page[i]

(***************************************************************************)
(* C10: the display of each concept of a page is the term of a Synonym     *)
(* marked Preferred in the consulted refset; else of an FSN marked         *)
(* Preferred; else an active Synonym of the display language; else the     *)
(* FSN; else the concept code.  (Stated for the calls in which every       *)
(* store query answered.)                                                  *)
(***************************************************************************)
ActiveDescs(c, lang, t) ==
    { d \in descriptions :
        d.concept_id = c /\ d.active /\ d.language_code = lang /\ d.type_id = t }

MarkedPreferred(d, refset) ==
    \E m \in language_refsets :
        /\ m.referenced_component_id = d.id /\ m.refset_id = refset
        /\ m.active /\ m.acceptability_id = PREFERRED

DisplayByPriority(c, lang) ==
    LET refset == refset_map(lang)
        ps == { d \in ActiveDescs(c, lang, SYNONYM) : MarkedPreferred(d, refset) }
        pf == { d \in ActiveDescs(c, lang, FSN) : MarkedPreferred(d, refset) }
        sy == ActiveDescs(c, lang, SYNONYM)
        fs == ActiveDescs(c, lang, FSN)
    IN  IF ps # {} THEN { d.term : d \in ps }
        ELSE IF pf # {} THEN { d.term : d \in pf }
        ELSE IF sy # {} THEN { d.term : d \in sy }
        ELSE IF fs # {} THEN { d.term : d \in fs }
        ELSE { code_str(c) }

C10_DisplayPriority ==
    (GeReturned /\ ~raised) =>
        \A i \in 1 .. Len(response.contains) :
            response.contains[i].display \in
                DisplayByPriority(response.contains[i].code, request.display_language)

(***************************************************************************)
(* Reference definitions for the filtered expansion, from the store.       *)
(***************************************************************************)
GfReturned == op = "get_filtered_expansion" /\ pc \in {"again", "done"}

PageCodes_of(r) == [i \in 1 .. Len(r.contains) |-> r.contains[i].code]

\* the descriptions of concept c that match the filter of the request
MatchingDescs(c) ==
    filter_matching({c}, normalize_search_text(request.filter_text), request.display_language)

\* the concepts of the candidate set with at least one matching description
AllMatching == { c \in request.concept_ids : MatchingDescs(c) # {} }

BestScore(c) ==
    LET nf == normalize_search_text(request.filter_text)
    IN  CHOOSE v \in { final_score(d, nf) : d \in MatchingDescs(c) } :
            \A d \in MatchingDescs(c) : final_score(d, nf) <= v

BestTerms(c) ==
    { lower(d.term) : d \in { x \in MatchingDescs(c) :
        final_score(x, normalize_search_text(request.filter_text)) = BestScore(c) } }

\* L lists concepts by descending final score, equal scores by ascending lower-cased best term
Ranked(L) ==
    \A i, j \in 1 .. Len(L) :
        i < j => \/ BestScore(L[i]) > BestScore(L[j])
                 \/ /\ BestScore(L[i]) = BestScore(L[j])
                    /\ \E ti \in BestTerms(L[i]), tj \in BestTerms(L[j]) : ~str_lt(tj, ti)

(***************************************************************************)
(* C6: the total of a filtered expand is the number of distinct concepts   *)
(* of the whole candidate set that have at least one description matching  *)
(* the filter, whatever count, offset, the batches and the hits per query.  *)
(* (Stated for the runs in which every store query answered.)              *)
(***************************************************************************)
C6_FilteredTotal ==
    (GfReturned /\ ~raised) => response.total = Cardinality(AllMatching)

(***************************************************************************)
(* C7: the page of a filtered expand is the slice [offset, offset+count)   *)
(* of a list of ALL matching concepts ordered by descending final score    *)
(* and, for equal scores, by ascending case-insensitive best term.         *)
(* (Stated for the runs in which every store query answered.)              *)
(***************************************************************************)
C7_FilteredPage ==
    (GfReturned /\ ~raised) =>
        \E L \in list_orders(AllMatching) :
            /\ Ranked(L)
            /\ PageCodes_of(response) =
                   py_slice(L, request.offset, request.offset + request.count)

(***************************************************************************)
(* C8: two runs of the same filtered expand against the unchanged store    *)
(* return the same total and the same codes in the same order.             *)
(* (Stated for the pairs of runs in which every store query answered.)     *)
(***************************************************************************)
C8_Deterministic ==
    (op = "get_filtered_expansion" /\ pc = "done" /\ ~raised) =>
        /\ response.total = previous.total
        /\ PageCodes_of(response) = PageCodes_of(previous)

(***************************************************************************)
(* Reference definitions for expand_view, from the store.                  *)
(***************************************************************************)
EvExpanded == op = "expand_view" /\ pc = "done" /\ response.kind = "expansion"

InStore(c) == \E x \in concepts : x.id = c

\* what a SNOMED clause denotes: its codes, and the root with its descendants
\* for each is-a filter whose root exists
ClauseDenotes(cl) ==
    Range(cl.concept) \cup
    UNION { {value_code(cl.filter[k].value)} \cup Descendants(value_code(cl.filter[k].value)) :
            k \in { n \in 1 .. Len(cl.filter) :
                      /\ cl.filter[n].property = "concept" /\ cl.filter[n].op = "is-a"
                      /\ InStore(value_code(cl.filter[n].value)) } }

ClausesDenote(cls) ==
    UNION { ClauseDenotes(cls[k]) : k \in { n \in 1 .. Len(cls) : cls[n].system = SNOMED } }

(***************************************************************************)
(* C1: the concept-id set that expand_view sorts and paginates is the      *)
(* union over the SNOMED include clauses (explicit codes, and root with    *)
(* Descendants(root) for each is-a filter whose root exists) minus the     *)
(* same union over the exclude clauses.  (Stated for the requests in which *)
(* every store query answered.)                                            *)
(***************************************************************************)
C1_SetAlgebra ==
    (EvExpanded /\ ~raised) =>
        all_concept_ids = ClausesDenote(includes_of(request)) \ ClausesDenote(excludes_of(request))

(***************************************************************************)
(* Reference definitions for validate_code_against_valueset: the set       *)
(* expand_view computes for a compose, every store query answering.        *)
(***************************************************************************)
VcReturned == op = "validate_code" /\ pc = "done"

\* expand_view computes a set: a value set with includes, none of them LOINC
ExpandComputesSet(vs) ==
    /\ vs.present /\ vs.include # <<>>
    /\ \A k \in 1 .. Len(vs.include) : vs.include[k].system # LOINC

ExpandClauseIds(cls) ==
    UNION { (CHOOSE r \in clause_concept_ids(cls[k]) : ~r.raised).ids :
            k \in { n \in 1 .. Len(cls) : cls[n].system = SNOMED } }

ExpandSet(vs) == ExpandClauseIds(vs.include) \ ExpandClauseIds(vs.exclude)

(***************************************************************************)
(* C5: for a code that exists in the store, validate_code_against_valueset *)
(* answers result = true exactly when the code is a member of the set that *)
(* expand_view computes for the same compose.  (Stated for the calls in    *)
(* which every store query answered.)                                      *)
(***************************************************************************)
C5_ValidateAgreesWithExpand ==
    (VcReturned /\ ~raised /\ InStore(request.code) /\ ExpandComputesSet(request.value_set)) =>
        (response.result <=> request.code \in ExpandSet(request.value_set))

(***************************************************************************)
(* C11: when the display language is not "en" and a concept of the page    *)
(* has no active description in that language but has one in "en", its     *)
(* display is an "en" term and not the bare concept code.  (Stated for the *)
(* calls in which every store query answered.)                             *)
(***************************************************************************)
ActiveTerms(c, lang) ==
    { d.term : d \in ActiveDescs(c, lang, SYNONYM) \cup ActiveDescs(c, lang, FSN) }

C11_EnglishFallback ==
    (GeReturned /\ ~raised /\ request.display_language # "en") =>
        \A i \in 1 .. Len(response.contains) :
            LET c == response.contains[i].code
            IN  (ActiveTerms(c, request.display_language) = {} /\ ActiveTerms(c, "en") # {})
                    => response.contains[i].display \in ActiveTerms(c, "en")

(***************************************************************************)
(* C12: the dialect of the request selects the acceptability refset.  With *)
(* displayLanguage "en-gb" the descriptions are matched on "en" and the    *)
(* Preferred term is the one of the GB refset; with "en-us" and "en" it is *)
(* the one of the US refset.  Stated on the pages of $expand without text  *)
(* filter: a concept with an active Synonym of the base language that is   *)
(* Preferred in the refset of the request's dialect is displayed by such a *)
(* Synonym.                                                                *)
(***************************************************************************)
BaseLanguage(lang) == IF lang \in {"en-gb", "en-us"} THEN "en" ELSE lang

DialectRefset(lang) == IF lang = "en-gb" THEN REFSET_GB ELSE REFSET_US

DialectPreferred(c, lang) ==
    { d.term : d \in { e \in ActiveDescs(c, BaseLanguage(lang), SYNONYM) :
                          MarkedPreferred(e, DialectRefset(lang)) } }

C12_DialectRefset ==
    (EvExpanded /\ ~raised /\ request.filter_text = <<>>) =>
        \A i \in 1 .. Len(response.contains) :
            LET c == response.contains[i].code
            IN  DialectPreferred(c, request.display_language) # {}
                    => response.contains[i].display
                           \in DialectPreferred(c, request.display_language)

(***************************************************************************)
(* $validate-code as a whole: the answered requests.                       *)
(***************************************************************************)
VcvReturned == op = "validate_code_view" /\ pc = "done"

\* a request with a code and a recognised system
VcvValidated == VcvReturned /\ request.code # NoCode /\ system_of(request) = SNOMED

(***************************************************************************)
(* C13: ValidateCode without a ValueSet and without url answers result =   *)
(* true if and only if the code exists in the concept store (stated for    *)
(* the requests whose store calls all answered).                           *)
(***************************************************************************)
C13_ExistsIffValid ==
    (VcvValidated /\ ~request.value_set.present /\ ~request.url /\ ~raised) =>
        (response.result <=> InStore(request.code))

(***************************************************************************)
(* C14: the supplied display never influences the result of validate-code: *)
(* whatever the answer to a request, the same request with any other       *)
(* display (none, a matching one, a mismatching one) has an answer with    *)
(* the same result under the same behaviour of the store.                  *)
(***************************************************************************)
C14_DisplayIgnored ==
    VcvReturned =>
        \A d \in ViewDisplays :
            \E r \in validate_code_view([request EXCEPT !.display = d]) :
                r.response.result = response.result /\ r.raised = raised

\* a mismatching display was reported in the message of a positive answer
C14_Witness ==
    /\ VcvValidated /\ request.display # NoTerm
    /\ response.result /\ response.message # SUCCESSFUL
    /\ display_mismatch(request.display, response.display)

(***************************************************************************)
(* C15: for a code that is absent from the store, with or without a        *)
(* ValueSet, validate-code answers with a Parameters resource of status    *)
(* 200 whose result is false and whose message contains the code, also     *)
(* when a store call fails.                                                *)
(***************************************************************************)
C15_AbsentCodeAnswered ==
    (VcvValidated /\ ~InStore(request.code)) =>
        /\ response.kind = "Parameters" /\ response.status = 200
        /\ ~response.result
        /\ contains_str(response.message, code_str(request.code))

\* an absent code was validated against a value set that names it
C15_Witness ==
    /\ VcvValidated /\ ~InStore(request.code)
    /\ request.value_set.present
    /\ \E i \in 1 .. Len(request.value_set.include) :
          request.code \in Range(request.value_set.include[i].concept)
    /\ ~response.result

(***************************************************************************)
(* $lookup: the answered requests, and the successful ones.                *)
(***************************************************************************)
LkReturned == op = "lookup" /\ pc = "done"

LkFound == LkReturned /\ response.kind = "Parameters"

PreferredSynonyms(c) ==
    { d.term : d \in { e \in descriptions :
                         /\ e.concept_id = c /\ e.active /\ e.type_id = SYNONYM
                         /\ MarkedPreferred(e, REFSET_US) } }

ActiveSynonyms(c) ==
    { d.term : d \in { e \in descriptions :
                         e.concept_id = c /\ e.active /\ e.type_id = SYNONYM } }

C17_LookupDisplay ==
    (LkFound /\ ~raised) =>
        /\ PreferredSynonyms(request.code) # {}
              => response.display \in PreferredSynonyms(request.code)
        /\ ActiveSynonyms(request.code) # {}
              => response.display \in ActiveSynonyms(request.code)

(***************************************************************************)
(* C18: in a successful lookup (no property selection in the request) the  *)
(* designations are exactly the active descriptions of the concept, the    *)
(* parents exactly the destinations of the active IS-A relationships whose *)
(* source is the code, the children exactly the sources of the active IS-A *)
(* relationships whose destination is the code.                            *)
(***************************************************************************)
C18_LookupContent ==
    (LkFound /\ ~raised /\ request.requested_properties = {}) =>
        /\ { g.of : g \in response.designations }
              = { d.id : d \in { e \in descriptions :
                                   e.concept_id = request.code /\ e.active } }
        /\ response.parents = { e[2] : e \in { x \in IsAEdges : x[1] = request.code } }
        /\ response.children = { e[1] : e \in { x \in IsAEdges : x[2] = request.code } }

(***************************************************************************)
(* C19: the role of a designation in a dialect context equals the          *)
(* acceptability of the description in that dialect's refset: PREFERRED    *)
(* only if it is Preferred there, ACCEPTABLE only if it is Acceptable      *)
(* there.                                                                  *)
(***************************************************************************)
Acceptability(id, refset, acc) ==
    \E m \in language_refsets :
        /\ m.referenced_component_id = id /\ m.refset_id = refset
        /\ m.active /\ m.acceptability_id = acc

C19_RolePerDialect ==
    (LkFound /\ ~raised) =>
        \A g \in response.designations :
            /\ Acceptability(g.of, REFSET_US, g.us)
            /\ Acceptability(g.of, REFSET_GB, g.gb)

(***************************************************************************)
(* Reference definitions for C20: the sets of codes expand_view can        *)
(* compute for a list of clauses and for a compose, every store query      *)
(* answering.                                                              *)
(***************************************************************************)
RECURSIVE ClauseIdSets(_)
ClauseIdSets(cls) ==
    IF cls = <<>> THEN { {} }
    ELSE { a \cup b :
             a \in IF Head(cls).system = SNOMED
                   THEN { r.ids : r \in { x \in clause_concept_ids(Head(cls)) : ~x.raised } }
                   ELSE { {} },
             b \in ClauseIdSets(Tail(cls)) }

ExpansionSets(inc, exc) == { a \ b : a \in ClauseIdSets(inc), b \in ClauseIdSets(exc) }

\* the compose has an expansion of SNOMED CT codes: includes, none of them LOINC
HasExpansion(inc) == inc # <<>> /\ \A k \in 1 .. Len(inc) : inc[k].system # LOINC

Front(seq) == SubSeq(seq, 1, Len(seq) - 1)

\* the SNOMED CT codes of the expansion answered: a response of the LOINC engine has none
AnsweredCodes == IF response.kind = "expansion" THEN all_concept_ids ELSE {}

(***************************************************************************)
(* C20: adding an include clause (of any system) to a compose never        *)
(* removes a code from the expansion and never decreases its total; adding *)
(* an exclude clause never adds a code and never increases the total.      *)
(* Stated on the requests without text filter whose store queries all      *)
(* answered, with the last include (exclude) clause as the added one: the  *)
(* compose without it has an expansion that is contained in (contains)     *)
(* the expansion answered.                                                 *)
(***************************************************************************)
C20_ClauseMonotone ==
    (op = "expand_view" /\ pc = "done" /\ ~raised /\ request.filter_text = <<>>) =>
        /\ (Len(includes_of(request)) >= 2 /\ HasExpansion(Front(includes_of(request)))) =>
              \E S \in ExpansionSets(Front(includes_of(request)), excludes_of(request)) :
                  /\ S \subseteq AnsweredCodes
                  /\ response.kind = "expansion" => Cardinality(S) <= response.total
        /\ (Len(excludes_of(request)) >= 1 /\ HasExpansion(includes_of(request))) =>
              \E S \in ExpansionSets(includes_of(request), Front(excludes_of(request))) :
                  /\ AnsweredCodes \subseteq S
                  /\ response.kind = "expansion" => response.total <= Cardinality(S)

(***************************************************************************)
(* Reference definitions for C21: what the SNOMED CT clauses denote when   *)
(* an is-a filter counts only if its root is in the store and active.      *)
(***************************************************************************)
ActiveInStore(c) == \E x \in concepts : x.id = c /\ x.active

LiveClauseDenotes(cl) ==
    Range(cl.concept) \cup
    UNION { {value_code(cl.filter[k].value)} \cup Descendants(value_code(cl.filter[k].value)) :
            k \in { n \in 1 .. Len(cl.filter) :
                      /\ cl.filter[n].property = "concept" /\ cl.filter[n].op = "is-a"
                      /\ ActiveInStore(value_code(cl.filter[n].value)) } }

LiveClausesDenote(cls) ==
    UNION { LiveClauseDenotes(cls[k]) : k \in { n \in 1 .. Len(cls) : cls[n].system = SNOMED } }

(***************************************************************************)
(* C21: an is-a filter whose root does not exist, or exists but is         *)
(* inactive, contributes no concept id to the expansion (neither the root  *)
(* nor a descendant) and does not fail the request: the request is         *)
(* answered with an expansion, and every id of it comes from an explicit   *)
(* code or from an is-a filter whose root is in the store and active.      *)
(***************************************************************************)
C21_DeadRootSkipped ==
    (op = "expand_view" /\ pc = "done" /\ ~raised /\ HasExpansion(includes_of(request))) =>
        /\ response.kind = "expansion"
        /\ all_concept_ids \subseteq LiveClausesDenote(includes_of(request))

(***************************************************************************)
(* C22: a validate-code request without the required code, or whose system *)
(* is not a recognised one, ends in a typed terminal failure with a        *)
(* client-error status (400 .. 499), never in a validation result carried  *)
(* by a success status.                                                    *)
(***************************************************************************)
C22_MalformedRejected ==
    (VcvReturned /\ (request.code = NoCode \/ system_of(request) # SNOMED)) =>
        /\ response.status \in 400 .. 499
        /\ response.kind # "Parameters"

(***************************************************************************)
(* Reference definition for C23: the outcomes [response, raised] of the    *)
(* request of a worker when it is served alone against the store, by the   *)
(* handlers of the single-request model.                                   *)
(***************************************************************************)
ServedAlone(wk) ==
    IF wk.kind = "expand"
    THEN UNION { { [response |-> [kind |-> "expansion", status |-> 200, total |-> r.total,
                                  offset |-> 0, contains |-> r.contains],
                    raised |-> (f.raised \/ r.raised)] :
                     r \in get_expansion(f.ids, "en", MaxCount, 0) } :
                 f \in filter_concept_ids(is_a(wk.code)) }
    ELSE IF wk.kind = "validate"
    THEN { [response |-> [kind |-> "Parameters", result |-> r.result], raised |-> r.raised] :
             r \in validate_code_against_valueset(wk.code,
                       [present |-> TRUE, exclude |-> <<>>,
                        include |-> <<clause(SNOMED, FALSE, <<>>, TRUE, <<is_a(wk.root)>>)>>]) }
    ELSE lookup_get_view([code |-> wk.code, system |-> SNOMED])

(***************************************************************************)
(* C23: concurrent requests do not interfere.  In every interleaving of    *)
(* the store calls of concurrently served lookup, expand and validate      *)
(* requests, the response of each request is a response the same request   *)
(* has when it is served alone against the same store.                     *)
(***************************************************************************)
C23_NoInterference ==
    op = "concurrent" =>
        \A w \in Workers :
            workers[w].pc = "done" =>
                [response |-> workers[w].response, raised |-> workers[w].raised]
                    \in ServedAlone(workers[w])

\* two expansions over the same part of the hierarchy have both been served
C23_Witness ==
    /\ op = "concurrent"
    /\ \A w \in Workers : workers[w].pc = "done" /\ workers[w].kind = "expand"
    /\ workers[1].code = 1 /\ workers[2].code = 2
    /\ 4 \in workers[1].all_descendants /\ 4 \in workers[2].all_descendants

(***************************************************************************)
(* C24: the descendant traversal terminates on every finite graph, with    *)
(* IS-A cycles and self-loops: an id already discovered, or the root,      *)
(* never enters the frontier again, so a concept is expanded at most once, *)
(* and the loop comes to its end (no new id, or the depth limit).          *)
(***************************************************************************)
C24_TraversalTerminates ==
    /\ [][current_level' \cap (all_descendants \cup current_level
                                 \cup {request.concept_id}) = {}]_current_level
    /\ <>(pc = "done")

\* a traversal from a root that lies on an IS-A cycle has ended, normally
C24_Witness ==
    /\ op = "find_descendants" /\ pc = "done" /\ ~raised
    /\ request.concept_id \in Descendants(request.concept_id)
    /\ all_descendants # {}

(***************************************************************************)
(* Reference definition for C25: the [contains, total] a batched filtered  *)
(* expansion of the request can return when the query of every batch       *)
(* answered.                                                               *)
(***************************************************************************)
EveryBatchAnswered ==
    LET nf == normalize_search_text(request.filter_text)
    IN  UNION { UNION { { [contains |-> r.contains, total |-> r.total] :
                            r \in process_filtered_results(b.hits, nf,
                                      request.display_language, request.count,
                                      request.offset) } :
                        b \in { x \in batch_hits(chunk_list(l, MAX_TERMS_PER_QUERY), nf,
                                                 request.display_language) : ~x.raised } } :
                l \in list_orders(request.concept_ids) }

(***************************************************************************)
(* C25: in a batched filtered expand a batch whose store query fails is    *)
(* never dropped: a response with a page and a total is returned only when *)
(* every batch contributed, so what is returned is a page and a total of a *)
(* run in which the query of every batch answered.                         *)
(***************************************************************************)
C25_NoBatchDropped ==
    (GfReturned /\ Cardinality(request.concept_ids) > MAX_TERMS_PER_QUERY) =>
        response \in EveryBatchAnswered

(***************************************************************************)
(* C26: a store failure during the concept-existence check is reported as  *)
(* a failure of its own and never as the answer given for an absent        *)
(* concept: validate-code of a code that the store holds as an active      *)
(* concept never answers "code not found", whatever store call fails.      *)
(***************************************************************************)
C26_FailureNotAbsence ==
    (VcvValidated /\ ActiveInStore(request.code)) =>
        response.message \notin { code_not_found(request.code, system_of(request)),
                                  code_not_found(request.code, "SNOMED CT") }

(***************************************************************************)
(* Reference definitions for C27 and C28: the adjustments of the score,    *)
(* each on its own.                                                        *)
(***************************************************************************)
AsReturned == op = "additional_score" /\ pc = "done"

TypeAdjustment == IF request.type_id = SYNONYM THEN 10
                  ELSE IF request.type_id = FSN THEN 5 ELSE 0

LengthAdjustment == IF Len(request.term) > LONG_TERM THEN -5 ELSE 0

\* the comparisons of the function: on the lower-cased term and the filter it is given
ExactMatch == lower(request.term) = lower(response.normalized_filter)

StartsWith == startswith(lower(request.term), lower(response.normalized_filter))

\* the filter after a space inside the term
AtWordBoundary ==
    contains_str(lower(request.term), <<" ">> \o lower(response.normalized_filter))

(***************************************************************************)
(* C27: calculate_additional_score is the sum of all adjustments that      *)
(* apply: +50 exact match, +30 starts-with without exact match, +20 filter *)
(* at a word boundary within the term, +10 Synonym or +5 FSN, -5 for a     *)
(* term of more than 100 characters; only the exact-match and the          *)
(* starts-with bonus exclude each other.                                   *)
(***************************************************************************)
C27_SumOfAdjustments ==
    AsReturned =>
        response.additional_score =
              (IF ExactMatch THEN 50 ELSE 0)
            + (IF StartsWith /\ ~ExactMatch THEN 30 ELSE 0)
            + (IF AtWordBoundary THEN 20 ELSE 0)
            + TypeAdjustment + LengthAdjustment

\* the part of the score that comes from comparing the term with the filter
MatchBonus == response.additional_score - TypeAdjustment - LengthAdjustment

(***************************************************************************)
(* C28: term and filter are compared after the same normalization          *)
(* (lower case, diacritics stripped, whitespace runs collapsed): when the  *)
(* normalized term equals the normalized filter the exact-match bonus is   *)
(* awarded, and when it starts with the normalized filter the starts-with  *)
(* bonus is awarded.                                                       *)
(***************************************************************************)
C28_SameNormalization ==
    AsReturned =>
        LET nt == normalize_search_text(request.term)
            nf == normalize_search_text(request.filter_text)
        IN  /\ nt = nf => MatchBonus = 50
            /\ (startswith(nt, nf) /\ nt # nf) => MatchBonus >= 30

\* the active Synonyms of concept c in the language that are Preferred in the refset consulted
PreferredSynonymsOf(c, lang) ==
    { d \in ActiveDescs(c, lang, SYNONYM) : MarkedPreferred(d, refset_map(lang)) }

(***************************************************************************)
(* C29: when several Synonyms of a concept are Preferred in the refset     *)
(* that is consulted, the display is fixed by the data: the entry of such  *)
(* a concept carries the same display in every answer the same call can    *)
(* have, whatever order the store returns the members and the descriptions *)
(* in.  (Stated for the calls in which every store query answered.)        *)
(***************************************************************************)
C29_StableDisplay ==
    (GeReturned /\ ~raised) =>
        \A r \in get_expansion(request.concept_ids, request.display_language,
                               request.count, request.offset) :
            ~r.raised =>
                \A i \in 1 .. Len(response.contains), j \in 1 .. Len(r.contains) :
                    (/\ r.contains[j].code = response.contains[i].code
                     /\ Cardinality(PreferredSynonymsOf(response.contains[i].code,
                                                        request.display_language)) > 1)
                        => r.contains[j].display = response.contains[i].display

(***************************************************************************)
(* C30: for every integer count and offset a client can send, the contains *)
(* list of an expand response has at most min(count, 100) entries (none    *)
(* for a count below one) and at most total entries, and never more than   *)
(* 100.                                                                    *)
(***************************************************************************)
C30_PageBounded ==
    EvExpanded =>
        /\ Len(response.contains) <= Max(0, Min(request.count, COUNT_CAP))
        /\ Len(response.contains) <= response.total
        /\ Len(response.contains) <= COUNT_CAP

====
